---- MODULE Spec2Model ----
(***************************************************************************)
(* Model of the minlz S2/Snappy block codec and stream framing.            *)
(*                                                                         *)
(* Byte sequences are TLA+ sequences of 0..255; Rust index i is TLA+       *)
(* index i+1 (see At and Slice).  Numbers that the Rust code holds in      *)
(* usize/u32/u64 are kept exact below Cap; the block decoder only ever     *)
(* compares a possibly huge value (a varint, a 4-byte literal length, a    *)
(* 4-byte offset) against quantities bounded by the size of its input,     *)
(* so values at or above Cap saturate to Cap.                              *)
(***************************************************************************)
EXTENDS Integers, Sequences, FiniteSets, TLC

VARIABLES
    phase,        \* which program is running: "dec", "enc", ...
    y,            \* decode(): the block handed to decode()
    dec_src,      \* s2_decode: src (the block after the length header)
    dec_len,      \* s2_decode: dst.len()
    dec_dst,      \* s2_decode: dst[0..d], the part of dst written so far
    dec_s,        \* s2_decode: s
    dec_d,        \* s2_decode: d
    dec_offset,   \* s2_decode: offset (last copy offset)
    dec_pc,       \* "idle", "run", "ok", "corrupt", "panic"
    dec_ev,       \* the tag handled by the last decoder step
    enc_src,      \* encode(): src
    enc_cap,      \* the length of the slice dst[d..] handed to the block encoder
    enc_dst,      \* block encoder: dst[0..d], the bytes emitted so far
    enc_s,        \* block encoder: s
    enc_next_emit, \* block encoder: next_emit
    enc_candidate, \* block encoder: candidate
    enc_skip,     \* encode_block, encode_block_snappy: skip
    enc_table,    \* encode_block, encode_block_snappy: table (entries never written are 0)
    enc_l_table,  \* encode_block_better, encode_block_best: l_table
    enc_s_table,  \* encode_block_better, encode_block_best: s_table
    enc_repeat,   \* encode_block_better, encode_block_best: repeat
    enc_cv,       \* encode_block_better, encode_block_best: cv
    enc_next_s,   \* encode_block_better: next_s
    enc_best,     \* encode_block_best: best
    enc_pc,       \* "idle", "search", "emit", "remain", "done", "panic"
    enc_out,      \* the Vec<u8> returned by encode()
    w_out,        \* Writer: the bytes the underlying writer has received
    w_buf,        \* Writer: buf
    w_wrote_header, \* Writer: wrote_header
    w_total_written, \* Writer: total_written
    w_pending,    \* Writer::write: buf[written..], the part not yet taken
    w_pc,         \* "idle", "flush" (encode() is running), "closed", "panic"
    w_ctx,        \* the caller of the running flush_block: "write", "flush", "drop"
    w_x,          \* all bytes the write calls have accepted so far
    w_calls,      \* number of write calls so far
    w_foreign,    \* another producer has put a chunk into the stream
    w_padding,    \* Writer: padding
    w_block,      \* Writer: block_size
    w_old,        \* the underlying writers Writer::reset has returned, oldest first
    r_off,        \* Reader: position of the underlying reader in the stream
    r_buf,        \* Reader: buf
    r_pos,        \* Reader: pos
    r_read_header, \* Reader: read_header
    r_eof,        \* Reader: eof
    r_offset,     \* Reader: current_uncompressed_offset
    r_pc,         \* "idle", "chunk" (inside the loop of read), "decode"
    r_n,          \* Reader::read: buf.len() of the running call
    r_type,       \* read_chunk: chunk_type of the last chunk header read
    r_crc,        \* read_compressed_chunk: checksum_bytes
    r_last,       \* result of the last read call: "none", "ok", "eof", "err_..."
    r_erred,      \* some read call returned an error
    r_ret,        \* the bytes the read calls have returned since the last seek
    r_ignore,     \* Reader: ignore_stream_id
    r_target,     \* Reader::seek: target_pos, if the running or the last call is a seek (else -1)
    r_to_skip,    \* Reader::seek: to_skip (0: no seek is running)
    r_val,        \* the value in the Ok the last call returned, if it was a seek (else -1)
    s_items,      \* the chunks a producer put into the source, by name
    cw_buffers,   \* ConcurrentWriter: buffers
    cw_results,   \* flush_blocks: the slots of compressed_blocks (<<>>: not computed yet)
    cw_pc,        \* "idle", "flush" (the workers are running), "closed", "panic"
    cw_ctx,       \* the caller of the running flush_blocks: "write", "flush", "drop"
    cw_pending,   \* ConcurrentWriter::write: remaining
    cw_concurrency, \* ConcurrentWriter: concurrency
    cw_block,     \* ConcurrentWriter: block_size
    ix,           \* an Index: total_uncompressed, total_compressed, info, est_block_uncomp
    ix_buf,       \* the Vec<u8> append_to wrote into
    ix_res,       \* the result of the last call on ix
    ld,           \* a second Index, the one load is called on
    ld_res,       \* the result of the last load call
    fn_arg,       \* the argument of the last call of a function that is called on its own
    fn_res        \* what that call returned

decVars == <<y, dec_src, dec_len, dec_dst, dec_s, dec_d, dec_offset, dec_pc, dec_ev>>
fastLoc == <<enc_skip, enc_table>>
betterLoc == <<enc_l_table, enc_s_table, enc_repeat, enc_cv, enc_next_s, enc_best>>
encVars == <<enc_src, enc_cap, enc_dst, enc_s, enc_next_emit, enc_candidate,
             fastLoc, betterLoc, enc_pc, enc_out>>
wVars == <<w_out, w_buf, w_wrote_header, w_total_written, w_pending, w_pc, w_ctx,
           w_x, w_calls, w_foreign, w_padding, w_block, w_old>>
rVars == <<r_off, r_buf, r_pos, r_read_header, r_eof, r_offset, r_pc, r_n, r_type, r_crc,
           r_last, r_erred, r_ret, r_ignore, r_target, r_to_skip, r_val>>
cwVars == <<cw_buffers, cw_results, cw_pc, cw_ctx, cw_pending, cw_concurrency, cw_block>>
ixVars == <<ix, ix_buf, ix_res, ld, ld_res>>
fnVars == <<fn_arg, fn_res>>
restVars == <<s_items, cwVars, ixVars, fnVars>>
strVars == <<wVars, rVars, restVars>>
vars == <<phase, decVars, encVars, strVars>>

----------------------------------------------------------------------------
(* Bytes and bounded arithmetic *)

Byte == 0..255
Cap == 2 ^ 29

At(seq, i) == seq[i + 1]
Slice(seq, a, b) == SubSeq(seq, a + 1, b)
Min(a, b) == IF a < b THEN a ELSE b
Max(a, b) == IF a > b THEN a ELSE b
Sat(x) == IF x > Cap THEN Cap ELSE x

\* u32::from_le_bytes / u16::from_le_bytes of the k bytes at src[s..s+k]
LeVal(src, s, k) ==
    LET b(j) == IF j < k THEN At(src, s + j) ELSE 0
    IN  IF b(3) >= 32 THEN Cap
        ELSE b(0) + 256 * b(1) + 65536 * b(2) + 16777216 * b(3)

TAG_LITERAL == 0
TAG_COPY1 == 1
TAG_COPY2 == 2
TAG_COPY4 == 3

----------------------------------------------------------------------------
(* varint.rs *)

\* (group << (7*i)) as it enters a u64, saturated at Cap
VarintTerm(g, i) ==
    IF g = 0 THEN 0
    ELSE IF i <= 3 THEN g * (128 ^ i)
    ELSE IF i = 4 /\ g < 2 THEN g * 268435456
    ELSE Cap

\* whether (group << (7*i)) makes the value exceed 0xffffffff
VarintOver32(g, i) == (i = 4 /\ g >= 16) \/ (i >= 5 /\ g > 0)

RECURSIVE decode_varint_loop(_, _, _, _)
decode_varint_loop(src, i, value, over) ==
    IF i >= Len(src) THEN [ok |-> FALSE, value |-> 0, n |-> 0, over32 |-> FALSE]
    ELSE IF i >= 10 THEN [ok |-> FALSE, value |-> 0, n |-> 0, over32 |-> FALSE]
    ELSE LET byte == At(src, i) IN
         IF byte < 128
         THEN IF i = 9 /\ byte > 1
              THEN [ok |-> FALSE, value |-> 0, n |-> 0, over32 |-> FALSE]
              ELSE [ok |-> TRUE,
                    value |-> Sat(value + VarintTerm(byte, i)),
                    n |-> i + 1,
                    over32 |-> over \/ VarintOver32(byte, i)]
         ELSE decode_varint_loop(src, i + 1,
                                 Sat(value + VarintTerm(byte % 128, i)),
                                 over \/ VarintOver32(byte % 128, i))

decode_varint(src) == decode_varint_loop(src, 0, 0, FALSE)

RECURSIVE encode_varint(_)
encode_varint(value) ==
    IF value >= 128
    THEN <<(value % 128) + 128>> \o encode_varint(value \div 128)
    ELSE <<value>>

\* A u64 in full width: three limbs <<bits 0..27, bits 28..55, bits 56..63>>
Limb == 268435456
U64Zero == <<0, 0, 0>>

\* value | ((group as u64) << shift) with shift = 7 * i; the bits of group
\* land on bits of value that are still zero, bits from 64 up are dropped
u64_or_shl(value, group, i) ==
    LET term == group * (128 ^ (i % 4)) IN
    IF i \div 4 = 0 THEN <<value[1] + term, value[2], value[3]>>
    ELSE IF i \div 4 = 1 THEN <<value[1], value[2] + term, value[3]>>
    ELSE <<value[1], value[2], value[3] + (term % 256)>>

\* value >= 0x80
u64_ge_0x80(value) == value[1] >= 128 \/ value[2] > 0 \/ value[3] > 0

\* value >> 7
u64_shr7(value) ==
    <<(value[1] \div 128) + (value[2] % 128) * (Limb \div 128),
      (value[2] \div 128) + (value[3] % 128) * (Limb \div 128),
      value[3] \div 128>>

\* v > 0xffffffff
u64_gt_u32(value) == value[3] > 0 \/ value[2] >= 16

VarintErr == [ok |-> FALSE, v |-> U64Zero, n |-> 0, err |-> "corrupt"]

\* decode_varint without the check of the tenth byte
RECURSIVE decode_varint_any_tenth(_, _, _)
decode_varint_any_tenth(src, i, value) ==
    IF i >= Len(src) THEN VarintErr
    ELSE IF i >= 10 THEN VarintErr
    ELSE LET byte == At(src, i) IN
         IF byte < 128
         THEN [ok |-> TRUE, v |-> u64_or_shl(value, byte, i), n |-> i + 1, err |-> "none"]
         ELSE decode_varint_any_tenth(src, i + 1, u64_or_shl(value, byte % 128, i))

\* decode_varint with the value in full width: Ok((v, n)) or Err(Corrupt)
RECURSIVE decode_varint_u64_loop(_, _, _)
decode_varint_u64_loop(src, i, value) ==
    IF i >= Len(src) THEN VarintErr
    ELSE IF i >= 10 THEN VarintErr
    ELSE LET byte == At(src, i) IN
         IF byte < 128
         THEN IF i = 9 /\ byte > 1
              THEN VarintErr
              ELSE [ok |-> TRUE, v |-> u64_or_shl(value, byte, i), n |-> i + 1, err |-> "none"]
         ELSE decode_varint_u64_loop(src, i + 1, u64_or_shl(value, byte % 128, i))

decode_varint_u64(src) == decode_varint_u64_loop(src, 0, U64Zero)

\* encode_varint with the value in full width: the bytes dst[0..n] it writes
RECURSIVE encode_varint_u64(_)
encode_varint_u64(value) ==
    IF u64_ge_0x80(value)
    THEN <<(value[1] % 128) + 128>> \o encode_varint_u64(u64_shr7(value))
    ELSE <<value[1]>>

RECURSIVE varint_size(_)
varint_size(value) ==
    IF u64_ge_0x80(value) THEN 1 + varint_size(u64_shr7(value)) ELSE 1

----------------------------------------------------------------------------
(* decode.rs *)

\* decode_len on a 64-bit target: Ok((v, n)), or the error in err
decode_len(src) ==
    LET r == decode_varint(src) IN
    IF ~r.ok THEN [ok |-> FALSE, dlen |-> 0, n |-> 0, err |-> "corrupt"]
    ELSE IF r.over32 THEN [ok |-> FALSE, dlen |-> 0, n |-> 0, err |-> "corrupt"]
    ELSE [ok |-> TRUE, dlen |-> r.value, n |-> r.n, err |-> "none"]

\* decode_literal_length(&src[s..]): (length, bytes_consumed) or Corrupt
decode_literal_length(src, s) ==
    LET x == At(src, s) \div 4
        avail == Len(src) - s
    IN  IF x <= 59 THEN [ok |-> TRUE, length |-> x + 1, n |-> 1]
        ELSE IF avail < x - 58 THEN [ok |-> FALSE, length |-> 0, n |-> 0]
        ELSE [ok |-> TRUE, length |-> Sat(LeVal(src, s + 1, x - 59) + 1), n |-> x - 58]

\* decode_copy1(&src[s..], last_offset): (offset, length, bytes_consumed) or Corrupt
decode_copy1(src, s, last_offset) ==
    LET avail == Len(src) - s IN
    IF avail < 2 THEN [ok |-> FALSE, offset |-> 0, length |-> 0, n |-> 0, rep |-> FALSE]
    ELSE
    LET b0 == At(src, s)
        toffset == (b0 \div 32) * 256 + At(src, s + 1)
        length == (b0 \div 4) % 8
    IN  IF toffset = 0
        THEN IF length = 5
             THEN IF avail < 3 THEN [ok |-> FALSE, offset |-> 0, length |-> 0, n |-> 0, rep |-> FALSE]
                  ELSE [ok |-> TRUE, offset |-> last_offset,
                        length |-> (At(src, s + 2) + 4) + 4, n |-> 3, rep |-> TRUE]
             ELSE IF length = 6
             THEN IF avail < 4 THEN [ok |-> FALSE, offset |-> 0, length |-> 0, n |-> 0, rep |-> FALSE]
                  ELSE [ok |-> TRUE, offset |-> last_offset,
                        length |-> (LeVal(src, s + 2, 2) + 256) + 4, n |-> 4, rep |-> TRUE]
             ELSE IF length = 7
             THEN IF avail < 5 THEN [ok |-> FALSE, offset |-> 0, length |-> 0, n |-> 0, rep |-> FALSE]
                  ELSE [ok |-> TRUE, offset |-> last_offset,
                        length |-> (LeVal(src, s + 2, 3) + 65536) + 4, n |-> 5, rep |-> TRUE]
             ELSE [ok |-> TRUE, offset |-> last_offset, length |-> length + 4, n |-> 2,
                   rep |-> TRUE]
        ELSE [ok |-> TRUE, offset |-> toffset, length |-> length + 4, n |-> 2, rep |-> FALSE]

\* the byte-by-byte loop of copy_within: dst[d + i] = dst[src_start + i],
\* iterations i..mid-1 followed by iterations mid..length-1
RECURSIVE copy_loop(_, _, _, _)
copy_loop(dst, src_start, i, length) ==
    LET mid == i + ((length - i) \div 2)
        first == copy_loop(dst, src_start, i, mid)
    IN  IF i >= length THEN dst
        ELSE IF i + 1 = length
             THEN Append(dst, IF src_start + i < Len(dst)
                              THEN At(dst, src_start + i) ELSE 0)
        ELSE IF Len(first) >= Len(dst) THEN copy_loop(first, src_start, mid, length)
        ELSE first

\* dst.copy_within(src_start..src_start + length, d): a memmove of the old
\* contents; bytes of dst at or above d are still the zeros of vec![0u8; dlen]
copy_memmove(dst, src_start, length) ==
    dst \o [i \in 1..length |->
              IF src_start + i <= Len(dst) THEN dst[src_start + i] ELSE 0]

\* copy_within with the overlap branch lost: always the built-in memmove
copy_within_memmove(dst, d, offset, length) ==
    copy_memmove(dst, d - offset, length)

\* copy_within(dst, d, offset, length), dst given as its written part dst[0..d]
copy_within(dst, d, offset, length) ==
    LET src_start == d - offset IN
    IF offset >= length
    THEN copy_memmove(dst, src_start, length)
    ELSE copy_loop(dst, src_start, 0, length)

\* the copy bounds check without its offset == 0 test
copy_check_no_zero(offset, d, length, dlen) ==
    d < offset \/ length > dlen - d

\* the bounds check in front of every copy
copy_check_fails(offset, d, length, dlen) ==
    offset = 0 \/ d < offset \/ length > dlen - d

\* the literal bounds check without its test against the room left in dst
literal_check_src_only(length, d, dlen, s, srclen) ==
    length > srclen - s

\* the bounds check in front of a literal copy
literal_check_fails(length, d, dlen, s, srclen) ==
    length > dlen - d \/ length > srclen - s

\* the tag handled by a step: its kind, what it asked for, d before it, whether
\* the fast loop handled it, and whether it was a repeat
NoEv == [kind |-> "none", offset |-> 0, length |-> 0, d0 |-> 0, fast |-> FALSE, rep |-> FALSE]
CopyEv(offset, length, d, fast, rp) ==
    [kind |-> "copy", offset |-> offset, length |-> length, d0 |-> d, fast |-> fast, rep |-> rp]
DecRes(pc, s, d, offset, dst, ev) ==
    [pc |-> pc, s |-> s, d |-> d, offset |-> offset, dst |-> dst, ev |-> ev]

\* the literal copy  dst[d..d+length].copy_from_slice(&src[s..s+length])
\* with the panics of Rust's slice indexing
DoLiteral(src, s, d, offset, dst, dlen, length, fast) ==
    LET ev == [kind |-> "lit", offset |-> 0, length |-> length, d0 |-> d, fast |-> fast,
               rep |-> FALSE] IN
    IF d + length > dlen \/ s + length > Len(src)
    THEN DecRes("panic", s, d, offset, dst, ev)
    ELSE DecRes("run", s + length, d + length, offset,
                dst \o Slice(src, s, s + length), ev)

\* copy_within(dst, d, offset, length); d += length
\* with the panics of the subtraction d - offset and of indexing dst
DoCopy(s, d, offset, dst, dlen, length, fast, rp) ==
    LET ev == CopyEv(offset, length, d, fast, rp) IN
    IF offset > d \/ d + length > dlen
    THEN DecRes("panic", s, d, offset, dst, ev)
    ELSE DecRes("run", s, d + length, offset, copy_within(dst, d, offset, length), ev)

\* a fast path whose Copy1 arm copies but leaves the last offset as it was
FastTagStaleOffset(src, s, d, offset, dst, dlen) ==
    LET tag == At(src, s) % 4 IN
    IF tag = TAG_LITERAL THEN
        LET r == decode_literal_length(src, s) IN
        IF ~r.ok THEN DecRes("corrupt", s, d, offset, dst, NoEv)
        ELSE IF literal_check_fails(r.length, d, dlen, s + r.n, Len(src))
        THEN DecRes("corrupt", s + r.n, d, offset, dst, NoEv)
        ELSE DoLiteral(src, s + r.n, d, offset, dst, dlen, r.length, TRUE)
    ELSE IF tag = TAG_COPY1 THEN
        LET r == decode_copy1(src, s, offset) IN
        IF ~r.ok THEN DecRes("corrupt", s, d, offset, dst, NoEv)
        ELSE IF copy_check_fails(r.offset, d, r.length, dlen)
        THEN DecRes("corrupt", s + r.n, d, r.offset, dst, CopyEv(r.offset, r.length, d, TRUE, r.rep))
        ELSE [DoCopy(s + r.n, d, r.offset, dst, dlen, r.length, TRUE, r.rep)
                 EXCEPT !.offset = offset]
    ELSE
        LET k == IF tag = TAG_COPY2 THEN 3 ELSE 5 IN
        IF s + k > Len(src) THEN DecRes("corrupt", s, d, offset, dst, NoEv)
        ELSE
        LET noff == LeVal(src, s + 1, k - 1)
            length == 1 + (At(src, s) \div 4)
        IN  IF copy_check_fails(noff, d, length, dlen)
            THEN DecRes("corrupt", s + k, d, noff, dst, CopyEv(noff, length, d, TRUE, FALSE))
            ELSE DoCopy(s + k, d, noff, dst, dlen, length, TRUE, FALSE)

\* one iteration of the fast-path loop of s2_decode
FastTag(src, s, d, offset, dst, dlen) ==
    LET tag == At(src, s) % 4 IN
    IF tag = TAG_LITERAL THEN
        LET r == decode_literal_length(src, s) IN
        IF ~r.ok THEN DecRes("corrupt", s, d, offset, dst, NoEv)
        ELSE IF literal_check_fails(r.length, d, dlen, s + r.n, Len(src))
        THEN DecRes("corrupt", s + r.n, d, offset, dst, NoEv)
        ELSE DoLiteral(src, s + r.n, d, offset, dst, dlen, r.length, TRUE)
    ELSE IF tag = TAG_COPY1 THEN
        LET r == decode_copy1(src, s, offset) IN
        IF ~r.ok THEN DecRes("corrupt", s, d, offset, dst, NoEv)
        ELSE IF copy_check_fails(r.offset, d, r.length, dlen)
        THEN DecRes("corrupt", s + r.n, d, r.offset, dst, CopyEv(r.offset, r.length, d, TRUE, r.rep))
        ELSE DoCopy(s + r.n, d, r.offset, dst, dlen, r.length, TRUE, r.rep)
    ELSE
        LET k == IF tag = TAG_COPY2 THEN 3 ELSE 5 IN
        IF s + k > Len(src) THEN DecRes("corrupt", s, d, offset, dst, NoEv)
        ELSE
        LET noff == LeVal(src, s + 1, k - 1)
            length == 1 + (At(src, s) \div 4)
        IN  IF copy_check_fails(noff, d, length, dlen)
            THEN DecRes("corrupt", s + k, d, noff, dst, CopyEv(noff, length, d, TRUE, FALSE))
            ELSE DoCopy(s + k, d, noff, dst, dlen, length, TRUE, FALSE)

\* one iteration of the slow-path loop of s2_decode
SlowTag(src, s, d, offset, dst, dlen) ==
    LET tag == At(src, s) % 4 IN
    IF tag = TAG_LITERAL THEN
        LET r == decode_literal_length(src, s) IN
        IF ~r.ok THEN DecRes("corrupt", s, d, offset, dst, NoEv)
        ELSE IF s + r.n > Len(src)
                \/ literal_check_fails(r.length, d, dlen, s + r.n, Len(src))
        THEN DecRes("corrupt", s + r.n, d, offset, dst, NoEv)
        ELSE DoLiteral(src, s + r.n, d, offset, dst, dlen, r.length, FALSE)
    ELSE IF tag = TAG_COPY1 THEN
        LET r == decode_copy1(src, s, offset) IN
        IF ~r.ok THEN DecRes("corrupt", s, d, offset, dst, NoEv)
        ELSE IF s + r.n > Len(src) THEN DecRes("corrupt", s + r.n, d, offset, dst, NoEv)
        ELSE IF copy_check_fails(r.offset, d, r.length, dlen)
        THEN DecRes("corrupt", s + r.n, d, r.offset, dst, CopyEv(r.offset, r.length, d, FALSE, r.rep))
        ELSE DoCopy(s + r.n, d, r.offset, dst, dlen, r.length, FALSE, r.rep)
    ELSE
        LET k == IF tag = TAG_COPY2 THEN 3 ELSE 5 IN
        IF s + k > Len(src) THEN DecRes("corrupt", s + k, d, offset, dst, NoEv)
        ELSE
        LET noff == LeVal(src, s + 1, k - 1)
            length == 1 + (At(src, s) \div 4)
        IN  IF copy_check_fails(noff, d, length, dlen)
            THEN DecRes("corrupt", s + k, d, noff, dst, CopyEv(noff, length, d, FALSE, FALSE))
            ELSE DoCopy(s + k, d, noff, dst, dlen, length, FALSE, FALSE)

\* src.len().saturating_sub(5)
FastLimit(src) == Max(Len(src) - 5, 0)

\* decode(): decode_len, vec![0u8; dlen], then s2_decode starts
DecodeBegin(block) ==
    LET h == decode_len(block) IN
    /\ y' = block
    /\ dec_ev' = NoEv
    /\ dec_s' = 0
    /\ dec_d' = 0
    /\ dec_offset' = 0
    /\ dec_dst' = <<>>
    /\ IF h.ok
       THEN /\ dec_pc' = "run"
            /\ dec_src' = Slice(block, h.n, Len(block))
            /\ dec_len' = h.dlen
       ELSE /\ dec_pc' = h.err
            /\ dec_src' = <<>>
            /\ dec_len' = 0

DecApply(r) ==
    /\ dec_pc' = r.pc
    /\ dec_s' = r.s
    /\ dec_d' = r.d
    /\ dec_offset' = r.offset
    /\ dec_dst' = r.dst
    /\ dec_ev' = r.ev
    /\ UNCHANGED <<y, dec_src, dec_len>>

\* fast path: while s < src.len().saturating_sub(5)
DecFast ==
    /\ dec_pc = "run"
    /\ dec_s < FastLimit(dec_src)
    /\ DecApply(FastTag(dec_src, dec_s, dec_d, dec_offset, dec_dst, dec_len))

\* slow path: while s < src.len()
DecSlow ==
    /\ dec_pc = "run"
    /\ dec_s >= FastLimit(dec_src)
    /\ dec_s < Len(dec_src)
    /\ DecApply(SlowTag(dec_src, dec_s, dec_d, dec_offset, dec_dst, dec_len))

\* if d != dst.len() { return Err(Corrupt) }  Ok(())
DecEnd ==
    /\ dec_pc = "run"
    /\ dec_s >= Len(dec_src)
    /\ dec_pc' = IF dec_d # dec_len THEN "corrupt" ELSE "ok"
    /\ UNCHANGED <<y, dec_src, dec_len, dec_dst, dec_s, dec_d, dec_offset, dec_ev>>

----------------------------------------------------------------------------
(* encode.rs: emitters *)

MIN_NON_LITERAL_BLOCK_SIZE == 32
INPUT_MARGIN == 8

\* the k little-endian bytes of n
Le(n, k) == [i \in 1..k |-> (n \div (256 ^ (i - 1))) % 256]

\* 64 - leading_zeros(n)
RECURSIVE BitLen(_)
BitLen(n) == IF n = 0 THEN 0 ELSE 1 + BitLen(n \div 2)

literal_extra_size(n) ==
    IF n = 0 THEN 0
    ELSE IF n < 60 THEN 1
    ELSE IF n < 256 THEN 2
    ELSE IF n < 65536 THEN 3
    ELSE IF n < 16777216 THEN 4
    ELSE 5

\* max_encoded_len(src_len) for src_len below Cap (TooLarge needs more than 2^32)
max_encoded_len(src_len) ==
    LET varint_extra == (BitLen(src_len) + 7) \div 7
        literal_extra == literal_extra_size(src_len)
        safety_margin == src_len \div 32 + 1
    IN  src_len + varint_extra + literal_extra + safety_margin

\* the bytes emit_literal writes at dst[0..]
emit_literal(lit) ==
    IF lit = <<>> THEN <<>>
    ELSE LET n == Len(lit) - 1 IN
         (IF n <= 59 THEN <<n * 4 + TAG_LITERAL>>
          ELSE IF n <= 255 THEN <<60 * 4 + TAG_LITERAL, n>>
          ELSE IF n <= 65535 THEN <<61 * 4 + TAG_LITERAL>> \o Le(n, 2)
          ELSE IF n <= 16777215 THEN <<62 * 4 + TAG_LITERAL>> \o Le(n, 3)
          ELSE <<63 * 4 + TAG_LITERAL>> \o Le(n, 4)) \o lit

\* an emit_repeat whose one-byte form takes four lengths too many
emit_repeat_wide_byte(offset, length) ==
    LET len == length - 4 IN
    IF len <= 4 THEN <<(len * 4 + TAG_COPY1) % 256, 0>>
    ELSE IF len < 8 /\ offset < 2048
    THEN <<((offset \div 256) * 32 + len * 4 + TAG_COPY1) % 256, offset % 256>>
    ELSE IF len < 256 + 8 THEN <<5 * 4 + TAG_COPY1, 0, (len - 4) % 256>>
    ELSE IF len < 65536 + 256 THEN <<6 * 4 + TAG_COPY1, 0>> \o Le(len - 256, 2)
    ELSE <<7 * 4 + TAG_COPY1, 0>> \o Le(len - 65536, 3)

\* the bytes emit_repeat writes
emit_repeat(offset, length) ==
    LET len == length - 4 IN
    IF len <= 4 THEN <<(len * 4 + TAG_COPY1) % 256, 0>>
    ELSE IF len < 8 /\ offset < 2048
    THEN <<((offset \div 256) * 32 + len * 4 + TAG_COPY1) % 256, offset % 256>>
    ELSE IF len < 256 + 4 THEN <<5 * 4 + TAG_COPY1, 0, (len - 4) % 256>>
    ELSE IF len < 65536 + 256 THEN <<6 * 4 + TAG_COPY1, 0>> \o Le(len - 256, 2)
    ELSE <<7 * 4 + TAG_COPY1, 0>> \o Le(len - 65536, 3)

\* the bytes emit_copy4 writes
emit_copy4(offset, length) ==
    LET long == length > 64
        remaining == IF long THEN length - 64 ELSE length
        first == IF long THEN <<63 * 4 + TAG_COPY4>> \o Le(offset, 4) ELSE <<>>
    IN  IF long /\ remaining >= 4 THEN first \o emit_repeat(offset, remaining)
        ELSE IF remaining = 0 THEN first
        ELSE first \o <<((remaining - 1) * 4 + TAG_COPY4) % 256>> \o Le(offset, 4)

\* the bytes emit_copy writes
emit_copy(offset, length) ==
    IF offset >= 65536 THEN emit_copy4(offset, length)
    ELSE IF length > 64
    THEN IF offset < 2048
         THEN <<((offset \div 256) * 32 + (8 - 4) * 4 + TAG_COPY1) % 256, offset % 256>>
              \o emit_repeat(offset, length - 8)
         ELSE <<59 * 4 + TAG_COPY2, offset % 256, (offset \div 256) % 256>>
              \o emit_repeat(offset, length - 60)
    ELSE IF length >= 12 \/ offset >= 2048
    THEN <<((length - 1) * 4 + TAG_COPY2) % 256, offset % 256, (offset \div 256) % 256>>
    ELSE <<((offset \div 256) * 32 + (length - 4) * 4 + TAG_COPY1) % 256, offset % 256>>

\* the copy emitter that may fall back on repeats
emit_copy_with_repeat(offset, length) == emit_copy(offset, length)

\* the bytes emit_copy_no_repeat writes
RECURSIVE emit_copy_no_repeat(_, _)
emit_copy_no_repeat(offset, length) ==
    IF offset >= 65536
    THEN LET long == length > 64
             remaining == IF long THEN length - 64 ELSE length
             first == IF long THEN <<63 * 4 + TAG_COPY4>> \o Le(offset, 4) ELSE <<>>
         IN  IF long /\ remaining >= 4
             THEN first \o emit_copy_no_repeat(offset, remaining)
             ELSE IF remaining = 0 THEN first
             ELSE first \o <<((remaining - 1) * 4 + TAG_COPY4) % 256>> \o Le(offset, 4)
    ELSE IF length > 64
    THEN <<59 * 4 + TAG_COPY2, offset % 256, (offset \div 256) % 256>>
         \o emit_copy_no_repeat(offset, length - 60)
    ELSE IF length >= 12 \/ offset >= 2048
    THEN <<((length - 1) * 4 + TAG_COPY2) % 256, offset % 256, (offset \div 256) % 256>>
    ELSE <<((offset \div 256) * 32 + (length - 4) * 4 + TAG_COPY1) % 256, offset % 256>>

----------------------------------------------------------------------------
(* encode.rs: loads and hashes.  A u32 or u64 is the sequence of its       *)
(* little-endian bytes, so that products are taken byte by byte.           *)

load32(src, offset) == Slice(src, offset, offset + 4)
load64(src, offset) == Slice(src, offset, offset + 8)

\* column k of the schoolbook product of a and c
RECURSIVE MulColumn(_, _, _, _)
MulColumn(a, c, k, i) ==
    IF i > k THEN 0 ELSE At(a, i) * At(c, k - i) + MulColumn(a, c, k, i + 1)

RECURSIVE MulFrom(_, _, _, _)
MulFrom(a, c, k, carry) ==
    IF k >= Len(a) THEN <<>>
    ELSE LET col == carry + MulColumn(a, c, k, 0)
         IN  <<col % 256>> \o MulFrom(a, c, k + 1, col \div 256)

\* a.wrapping_mul(c) for two integers of Len(a) bytes
wrapping_mul(a, c) == MulFrom(a, c, 0, 0)

\* v >> (8 * Len(v) - h), the top h bits of v, for h <= 24
TopBits(v, h) ==
    LET n == Len(v)
    IN  (v[n - 2] + 256 * v[n - 1] + 65536 * v[n]) \div (2 ^ (24 - h))

\* 0x1e35a7bd
HashMul == <<189, 167, 53, 30>>

\* hash(&src[s..], shift)
hash(src, s, shift) == TopBits(wrapping_mul(load32(src, s), HashMul), 32 - shift)

\* (a ^ b).trailing_zeros() / 8 for a # b: the index of the first byte that differs
RECURSIVE FirstDiff(_, _, _)
FirstDiff(a, b, i) == IF a[i + 1] # b[i + 1] THEN i ELSE FirstDiff(a, b, i + 1)

\* table[h] of a vec![0u32; size] given by the entries written so far
TableGet(table, h) == IF h \in DOMAIN table THEN table[h] ELSE 0
TableSet(table, h, v) == (h :> v) @@ table
EmptyTable == [k \in {} |-> 0]

----------------------------------------------------------------------------
(* encode.rs: encode() and the parts the block encoders share *)

Zero64 == <<0, 0, 0, 0, 0, 0, 0, 0>>

\* Match::empty()
EmptyMatch == [offset |-> 0, s |-> 0, length |-> 0, score |-> 0, rep |-> FALSE]

EncIdle ==
    /\ enc_src = <<>>
    /\ enc_cap = 0
    /\ enc_dst = <<>>
    /\ enc_s = 0
    /\ enc_next_emit = 0
    /\ enc_candidate = 0
    /\ enc_skip = 0
    /\ enc_table = EmptyTable
    /\ enc_l_table = EmptyTable
    /\ enc_s_table = EmptyTable
    /\ enc_repeat = 0
    /\ enc_cv = Zero64
    /\ enc_next_s = 0
    /\ enc_best = EmptyMatch
    /\ enc_pc = "idle"
    /\ enc_out = <<>>

\* the programs that run encode(), the fast level
FastPhases == {"fast", "stream", "big", "writer", "reset"}

\* constants.rs: block sizes
MAX_BLOCK_SIZE == 4194304
MIN_BLOCK_SIZE == 4096
DEFAULT_BLOCK_SIZE == 1048576

\* a with_block_size that only caps the size
with_block_size_no_floor(size) == Min(size, MAX_BLOCK_SIZE)

\* Writer::with_block_size: block_size.clamp(MIN_BLOCK_SIZE, MAX_BLOCK_SIZE)
with_block_size(size) == Max(MIN_BLOCK_SIZE, Min(size, MAX_BLOCK_SIZE))

\* Writer::new
block_size == with_block_size(DEFAULT_BLOCK_SIZE)

\* no function has been called yet
FnNone == [op |-> "none"]

\* the result of the last Index call: nothing yet
IxNone == [kind |-> "none", c |-> 0, v |-> 0, u |-> 0]

\* Index::new
IndexNew == [total_uncompressed |-> -1, total_compressed |-> -1, info |-> <<>>,
             est_block_uncomp |-> 0]

\* Writer::new, Reader::new over an empty stream, ConcurrentWriter::new with
\* one worker, Index::new
StrIdle ==
    /\ w_out = <<>>
    /\ w_buf = <<>>
    /\ w_wrote_header = FALSE
    /\ w_total_written = 0
    /\ w_pending = <<>>
    /\ w_pc = "idle"
    /\ w_ctx = "none"
    /\ w_x = <<>>
    /\ w_calls = 0
    /\ w_foreign = FALSE
    /\ w_padding = 0
    /\ w_block = block_size
    /\ w_old = <<>>
    /\ r_off = 0
    /\ r_buf = <<>>
    /\ r_pos = 0
    /\ r_read_header = FALSE
    /\ r_eof = FALSE
    /\ r_offset = 0
    /\ r_pc = "idle"
    /\ r_n = 0
    /\ r_type = 0
    /\ r_crc = <<>>
    /\ r_last = "none"
    /\ r_erred = FALSE
    /\ r_ret = <<>>
    /\ r_ignore = FALSE
    /\ r_target = -1
    /\ r_to_skip = 0
    /\ r_val = -1
    /\ s_items = <<>>
    /\ cw_buffers = <<>>
    /\ cw_results = <<>>
    /\ cw_pc = "idle"
    /\ cw_ctx = "none"
    /\ cw_pending = <<>>
    /\ cw_concurrency = 1
    /\ cw_block = MIN_BLOCK_SIZE
    /\ ix = IndexNew
    /\ ix_buf = <<>>
    /\ ix_res = IxNone
    /\ ld = IndexNew
    /\ ld_res = "none"
    /\ fn_arg = <<>>
    /\ fn_res = FnNone

\* while candidate > 0 && s > next_emit && src[candidate - 1] == src[s - 1]
RECURSIVE extend_backwards(_, _, _, _)
extend_backwards(src, candidate, s, next_emit) ==
    IF candidate > 0 /\ s > next_emit /\ At(src, candidate - 1) = At(src, s - 1)
    THEN extend_backwards(src, candidate - 1, s - 1, next_emit)
    ELSE [candidate |-> candidate, s |-> s]

\* encode() after the block encoder returned n: truncate, or fall back to
\* one literal written over dst[d..]
encode_tail(src, dst, n, cap) ==
    LET lit == emit_literal(src) IN
    IF n > 0 THEN [pc |-> "done", out |-> encode_varint(Len(src)) \o SubSeq(dst, 1, n)]
    ELSE IF Len(lit) > cap THEN [pc |-> "panic", out |-> <<>>]
    ELSE [pc |-> "done", out |-> encode_varint(Len(src)) \o lit]

\* encode(): src, dst and the local variables of encode_block
FastCur ==
    [src |-> enc_src, cap |-> enc_cap, dst |-> enc_dst, s |-> enc_s,
     next_emit |-> enc_next_emit, candidate |-> enc_candidate, skip |-> enc_skip,
     table |-> enc_table, pc |-> enc_pc, out |-> enc_out]

FastSet(st) ==
    /\ enc_src' = st.src
    /\ enc_cap' = st.cap
    /\ enc_dst' = st.dst
    /\ enc_s' = st.s
    /\ enc_next_emit' = st.next_emit
    /\ enc_candidate' = st.candidate
    /\ enc_skip' = st.skip
    /\ enc_table' = st.table
    /\ enc_pc' = st.pc
    /\ enc_out' = st.out

\* encode(), encode_better(), encode_best(), encode_snappy() up to the call
\* of the block encoder; first_pc is where that encoder's loop starts
encode_start(src, first_pc) ==
    LET max_len == max_encoded_len(Len(src))
        hdr == encode_varint(Len(src))
        cap == max_len - Len(hdr)
        r == encode_tail(src, <<>>, 0, cap)
        st == [src |-> src, cap |-> cap, dst |-> <<>>, s |-> 0, next_emit |-> 0,
               candidate |-> 0, skip |-> 32, table |-> EmptyTable,
               pc |-> "done", out |-> hdr]
    IN  IF src = <<>> THEN st
        ELSE IF Len(src) < MIN_NON_LITERAL_BLOCK_SIZE
        THEN [st EXCEPT !.pc = r.pc, !.out = r.out]
        ELSE [st EXCEPT !.pc = first_pc, !.out = <<>>, !.s = 1]

EncodeBegin(src, first_pc, repeat0) ==
    /\ FastSet(encode_start(src, first_pc))
    /\ enc_l_table' = EmptyTable
    /\ enc_s_table' = EmptyTable
    /\ enc_repeat' = repeat0
    /\ enc_cv' = IF Len(src) < MIN_NON_LITERAL_BLOCK_SIZE
                  THEN Zero64 ELSE load64(src, 1)
    /\ enc_next_s' = 0
    /\ enc_best' = EmptyMatch

----------------------------------------------------------------------------
(* encode.rs: encode_block *)

\* while s <= src.len() - 8 { ... } of encode_block: candidate only moves
\* when eight bytes were equal
RECURSIVE extend8(_, _, _)
extend8(src, s, candidate) ==
    IF s > Len(src) - 8 THEN [s |-> s, candidate |-> candidate]
    ELSE IF load64(src, s) # load64(src, candidate)
    THEN [s |-> s + FirstDiff(load64(src, s), load64(src, candidate), 0),
          candidate |-> candidate]
    ELSE extend8(src, s + 8, candidate + 8)

\* while s < src.len() && candidate < s && src[s] == src[candidate]
RECURSIVE extend1(_, _, _)
extend1(src, s, candidate) ==
    IF s < Len(src) /\ candidate < s /\ At(src, s) = At(src, candidate)
    THEN extend1(src, s + 1, candidate + 1)
    ELSE [s |-> s, candidate |-> candidate]

\* table_bits of encode_block
table_bits(src) == IF Len(src) <= 64 * 1024 THEN 14 ELSE 17

\* one iteration of the 'search loop
fast_search(st) ==
    LET src == st.src
        shift == 32 - table_bits(src)
        s_limit == Len(src) - INPUT_MARGIN
        next_s == st.s + (st.skip \div 32)
        h == hash(src, st.s, shift)
        candidate == TableGet(st.table, h)
    IN  IF next_s > s_limit
        THEN [st EXCEPT !.skip = @ + 1, !.pc = "remain"]
        ELSE [st EXCEPT !.skip = @ + 1,
                        !.candidate = candidate,
                        !.table = TableSet(st.table, h, st.s),
                        !.pc = IF load32(src, st.s) = load32(src, candidate)
                               THEN "emit" ELSE "search",
                        !.s = IF load32(src, st.s) = load32(src, candidate)
                              THEN st.s ELSE next_s]

\* one iteration of the 'emit_copies loop
fast_emit(st) ==
    LET src == st.src
        shift == 32 - table_bits(src)
        s_limit == Len(src) - INPUT_MARGIN
        b == extend_backwards(src, st.candidate, st.s, st.next_emit)
        lit == IF b.s > st.next_emit
               THEN emit_literal(Slice(src, st.next_emit, b.s)) ELSE <<>>
        base == b.s
        offset == base - b.candidate
        f8 == extend8(src, base + 4, b.candidate + 4)
        f == extend1(src, f8.s, f8.candidate)
        s == f.s
        cp == emit_copy(offset, s - base)
        dst == (st.dst \o lit) \o cp
        h_back == hash(src, s - 2, shift)
        table1 == TableSet(st.table, h_back, s - 2)
        h_curr == hash(src, s, shift)
        candidate == TableGet(table1, h_curr)
        table2 == TableSet(table1, h_curr, s)
        again == candidate < s /\ s + 4 <= Len(src)
                    /\ load32(src, s) = load32(src, candidate)
    IN  IF Len(dst) > st.cap THEN [st EXCEPT !.pc = "panic"]
        ELSE IF s >= s_limit
        THEN [st EXCEPT !.dst = dst, !.next_emit = s, !.s = s,
                        !.candidate = f.candidate, !.pc = "remain"]
        ELSE [st EXCEPT !.dst = dst, !.next_emit = s,
                        !.table = table2,
                        !.candidate = candidate,
                        !.pc = IF again THEN "emit" ELSE "search",
                        !.s = IF again THEN s ELSE s + 1,
                        !.skip = IF again THEN @ ELSE 32]

\* after the loops: emit the remaining literal, the worthwhile check, and
\* the tail of encode()
fast_remain(st) ==
    LET src == st.src
        lit == IF st.next_emit < Len(src)
               THEN emit_literal(Slice(src, st.next_emit, Len(src))) ELSE <<>>
        dst == st.dst \o lit
        d == Len(dst)
        n == IF d >= Len(src) - Len(src) \div 32 THEN 0 ELSE d
        r == encode_tail(src, dst, n, st.cap)
    IN  IF d > st.cap THEN [st EXCEPT !.pc = "panic"]
        ELSE [st EXCEPT !.pc = r.pc, !.out = r.out, !.dst = dst]

FastSearch ==
    /\ phase \in FastPhases
    /\ enc_pc = "search"
    /\ FastSet(fast_search(FastCur))
    /\ UNCHANGED betterLoc

FastEmit ==
    /\ phase \in FastPhases
    /\ enc_pc = "emit"
    /\ FastSet(fast_emit(FastCur))
    /\ UNCHANGED betterLoc

FastRemain ==
    /\ phase \in FastPhases
    /\ enc_pc = "remain"
    /\ FastSet(fast_remain(FastCur))
    /\ UNCHANGED betterLoc

\* encode_block and the tail of encode() from st on: at most k iterations of
\* its loops, the range halved so that the evaluation stays shallow
fast_step(st) ==
    IF st.pc = "search" THEN fast_search(st)
    ELSE IF st.pc = "emit" THEN fast_emit(st)
    ELSE fast_remain(st)

RECURSIVE fast_run(_, _)
fast_run(st, k) ==
    LET half == fast_run(st, k \div 2) IN
    IF st.pc \in {"done", "panic"} THEN st
    ELSE IF k <= 1 THEN fast_step(st)
    ELSE IF half.pc \in {"done", "panic"} THEN half
    ELSE fast_run(half, k - (k \div 2))

----------------------------------------------------------------------------
(* encode.rs: encode_block_better *)

\* 2654435761, 58295818150454627 and 0xcf1bbcdcb7a56463 as little-endian bytes
PRIME_4_BYTES == <<177, 121, 55, 158>>
PRIME_7_BYTES == <<99, 165, 191, 220, 188, 27, 207, 0>>
PRIME_8_BYTES == <<99, 100, 165, 183, 220, 188, 27, 207>>

\* u >> 8 and u << 8 of a u64
Shr8(u) == Tail(u) \o <<0>>
Shl8(u) == <<0>> \o SubSeq(u, 1, 7)

\* u as u32
Low32(u) == SubSeq(u, 1, 4)

hash4(u, h) == TopBits(wrapping_mul(Low32(u), PRIME_4_BYTES), h)
hash7(u, h) == TopBits(wrapping_mul(Shl8(u), PRIME_7_BYTES), h)
hash8(u, h) == TopBits(wrapping_mul(u, PRIME_8_BYTES), h)

BETTER_L_TABLE_BITS == 17
BETTER_S_TABLE_BITS == 14

\* val_long, val_short: the eight bytes at a candidate, or 0 for a candidate
\* that is 0 or too close to the end
better_val(src, candidate) ==
    IF candidate > 0 /\ candidate < Len(src) - 8 THEN load64(src, candidate) ELSE Zero64

\* "Extend the 4-byte match as long as possible": the final s
RECURSIVE better_extend(_, _, _)
better_extend(src, s, candidate) ==
    IF s >= Len(src) THEN s
    ELSE IF Len(src) - s < 8
    THEN IF candidate < Len(src) /\ At(src, s) = At(src, candidate)
         THEN better_extend(src, s + 1, candidate + 1)
         ELSE s
    ELSE IF candidate + 8 > Len(src) THEN s
    ELSE IF load64(src, s) # load64(src, candidate)
    THEN s + FirstDiff(load64(src, s), load64(src, candidate), 0)
    ELSE better_extend(src, s + 8, candidate + 8)

\* "Index short & long" for one index; tabs is [l |-> l_table, s |-> s_table]
better_index(tabs, src, index) ==
    IF index < Len(src) - 8
    THEN LET cv0 == load64(src, index) IN
         [l |-> TableSet(tabs.l, hash7(cv0, BETTER_L_TABLE_BITS), index),
          s |-> IF index + 1 < Len(src) - 8
                THEN TableSet(tabs.s, hash4(Shr8(cv0), BETTER_S_TABLE_BITS), index + 1)
                ELSE tabs.s]
    ELSE tabs

\* "Index large values sparsely in between": while index2 < index1
RECURSIVE better_index_sparse(_, _, _, _, _)
better_index_sparse(l, src, index0, index2, index1) ==
    IF index2 >= index1 THEN l
    ELSE LET l1 == IF index0 < Len(src) - 8
                   THEN TableSet(l, hash7(load64(src, index0), BETTER_L_TABLE_BITS), index0)
                   ELSE l
             l2 == IF index2 < Len(src) - 8
                   THEN TableSet(l1, hash7(load64(src, index2), BETTER_L_TABLE_BITS), index2)
                   ELSE l1
         IN  better_index_sparse(l2, src, index0 + 2, index2 + 2, index1)

\* return 0 out of the block encoder, then the tail of encode_better()
BetterReturn0 ==
    LET r == encode_tail(enc_src, enc_dst, 0, enc_cap)
    IN  /\ enc_pc' = r.pc
        /\ enc_out' = r.out
        /\ UNCHANGED <<enc_dst, enc_s, enc_next_emit, enc_candidate, betterLoc>>

\* one iteration of the "Find a match" loop
BetterSearch ==
    LET src == enc_src
        s == enc_s
        cv == enc_cv
        s_limit == Len(src) - INPUT_MARGIN
        next_s == s + (s - enc_next_emit) \div 128 + 1
        hash_l == hash7(cv, BETTER_L_TABLE_BITS)
        hash_s == hash4(cv, BETTER_S_TABLE_BITS)
        candidate_l == TableGet(enc_l_table, hash_l)
        candidate_s == TableGet(enc_s_table, hash_s)
        lt1 == TableSet(enc_l_table, hash_l, s)
        st1 == TableSet(enc_s_table, hash_s, s)
        val_long == better_val(src, candidate_l)
        val_short == better_val(src, candidate_s)
        hash_l2 == hash7(Shr8(cv), BETTER_L_TABLE_BITS)
        candidate_l_next == TableGet(lt1, hash_l2)
        lt2 == TableSet(lt1, hash_l2, s + 1)
        Found(c, s1, lt) ==
            /\ enc_pc' = "emit"
            /\ enc_candidate' = c
            /\ enc_s' = s1
            /\ enc_l_table' = lt
            /\ enc_cv' = cv
    IN  /\ phase = "better"
        /\ enc_pc = "search"
        /\ enc_next_s' = next_s
        /\ UNCHANGED <<enc_src, enc_cap, enc_out, enc_dst, enc_next_emit, fastLoc,
                       enc_repeat, enc_best>>
        /\ IF next_s > s_limit
           THEN /\ enc_pc' = "remain"
                /\ UNCHANGED <<enc_s, enc_candidate, enc_l_table, enc_s_table, enc_cv>>
           ELSE /\ enc_s_table' = st1
                /\ IF cv = val_long THEN Found(candidate_l, s, lt1)
                   ELSE IF cv = val_short THEN Found(candidate_s, s, lt1)
                   ELSE IF Low32(cv) = Low32(val_long) THEN Found(candidate_l, s, lt1)
                   ELSE IF Low32(cv) = Low32(val_short)
                   THEN IF /\ candidate_l_next > 0
                           /\ candidate_l_next < Len(src) - 4
                           /\ Low32(Shr8(cv)) = load32(src, candidate_l_next)
                        THEN Found(candidate_l_next, s + 1, lt2)
                        ELSE Found(candidate_s, s, lt2)
                   ELSE /\ enc_pc' = "search"
                        /\ enc_cv' = IF next_s + 8 <= Len(src) THEN load64(src, next_s) ELSE cv
                        /\ enc_s' = next_s
                        /\ enc_l_table' = lt1
                        /\ UNCHANGED enc_candidate

\* the rest of an iteration of the outer loop, from "Extend backwards" on
BetterEmit ==
    LET src == enc_src
        s_limit == Len(src) - INPUT_MARGIN
        dst_limit == Len(src) - Len(src) \div 32 - 6
        b == extend_backwards(src, enc_candidate, enc_s, enc_next_emit)
        base == b.s
        offset == base - b.candidate
        s == better_extend(src, base + 4, b.candidate + 4)
        lit == emit_literal(Slice(src, enc_next_emit, base))
        cp == IF enc_repeat = offset THEN emit_repeat(offset, s - base)
              ELSE emit_copy(offset, s - base)
        dst == (enc_dst \o lit) \o cp
        index0 == base + 1
        index1 == s - 2
        t0 == better_index([l |-> enc_l_table, s |-> enc_s_table], src, index0)
        t1 == IF index1 > 0 THEN better_index(t0, src, index1) ELSE t0
        l2 == better_index_sparse(t1.l, src, index0 + 1,
                                  ((index0 + 1) + index1 + 1) \div 2, index1)
        skip_s == enc_next_s + 1
    IN  /\ phase = "better"
        /\ enc_pc = "emit"
        /\ UNCHANGED <<enc_src, enc_cap, fastLoc>>
        /\ IF Len(enc_dst) + (b.s - enc_next_emit) > dst_limit
           THEN BetterReturn0
           ELSE IF offset > 65535 /\ s - base <= 5 /\ enc_repeat # offset
           THEN /\ enc_s' = skip_s
                /\ enc_candidate' = b.candidate
                /\ enc_pc' = IF skip_s >= s_limit THEN "remain" ELSE "search"
                /\ enc_cv' = IF skip_s < s_limit /\ skip_s + 8 <= Len(src)
                             THEN load64(src, skip_s) ELSE enc_cv
                /\ UNCHANGED <<enc_dst, enc_next_emit, enc_out, enc_l_table, enc_s_table,
                               enc_repeat, enc_next_s, enc_best>>
           ELSE IF Len(dst) > enc_cap
           THEN /\ enc_pc' = "panic"
                /\ UNCHANGED <<enc_dst, enc_s, enc_next_emit, enc_candidate, enc_out,
                               betterLoc>>
           ELSE IF s < s_limit /\ Len(dst) > dst_limit
           THEN LET r == encode_tail(src, dst, 0, enc_cap)
                IN  /\ enc_pc' = r.pc
                    /\ enc_out' = r.out
                    /\ enc_dst' = dst
                    /\ enc_s' = s
                    /\ enc_next_emit' = s
                    /\ enc_candidate' = b.candidate
                    /\ enc_repeat' = offset
                    /\ UNCHANGED <<enc_l_table, enc_s_table, enc_cv, enc_next_s, enc_best>>
           ELSE /\ enc_dst' = dst
                /\ enc_s' = s
                /\ enc_next_emit' = s
                /\ enc_candidate' = b.candidate
                /\ enc_repeat' = offset
                /\ UNCHANGED <<enc_out, enc_next_s, enc_best>>
                /\ IF s >= s_limit
                   THEN enc_pc' = "remain" /\ UNCHANGED <<enc_l_table, enc_s_table, enc_cv>>
                   ELSE /\ enc_pc' = "search"
                        /\ enc_l_table' = l2
                        /\ enc_s_table' = t1.s
                        /\ enc_cv' = IF s + 8 <= Len(src) THEN load64(src, s) ELSE enc_cv

\* "Emit remaining", return d, and the tail of encode_better()
BetterRemain ==
    LET src == enc_src
        dst_limit == Len(src) - Len(src) \div 32 - 6
        rest == enc_next_emit < Len(src)
        lit == IF rest THEN emit_literal(Slice(src, enc_next_emit, Len(src))) ELSE <<>>
        dst == enc_dst \o lit
        r == encode_tail(src, dst, Len(dst), enc_cap)
    IN  /\ phase = "better"
        /\ enc_pc = "remain"
        /\ UNCHANGED <<enc_src, enc_cap, fastLoc>>
        /\ IF rest /\ Len(enc_dst) + Len(src) - enc_next_emit > dst_limit
           THEN BetterReturn0
           ELSE IF Len(dst) > enc_cap
           THEN /\ enc_pc' = "panic"
                /\ UNCHANGED <<enc_dst, enc_s, enc_next_emit, enc_candidate, enc_out,
                               betterLoc>>
           ELSE /\ enc_pc' = r.pc
                /\ enc_out' = r.out
                /\ enc_dst' = dst
                /\ UNCHANGED <<enc_s, enc_next_emit, enc_candidate, betterLoc>>
----------------------------------------------------------------------------
(* encode.rs: encode_block_best *)

BEST_L_TABLE_BITS == 19
BEST_S_TABLE_BITS == 16
MAX_SKIP == 64
SKIP_BEGINNING == 2
SKIP_END == 1
MAX_REPEAT == 16777215

RECURSIVE emit_repeat_size(_, _)
emit_repeat_size(offset, length) ==
    IF length <= 4 + 4 \/ (length < 8 + 4 /\ offset < 2048) THEN 2
    ELSE IF length < 256 + 4 + 4 THEN 3
    ELSE IF length < 65536 + 256 + 4 THEN 4
    ELSE LET remaining == length - (65536 - 4)
             left == IF remaining > MAX_REPEAT THEN remaining - MAX_REPEAT + 4 ELSE 0
         IN  IF left > 0 THEN 5 + emit_repeat_size(offset, left) ELSE 5

emit_copy_size(offset, length) ==
    IF offset >= 65536
    THEN LET long == length > 64
             remaining == IF long THEN length - 64 ELSE length
             i == IF long THEN 5 ELSE 0
         IN  IF long /\ remaining >= 4 THEN 5 + emit_repeat_size(offset, remaining)
             ELSE IF remaining = 0 THEN i
             ELSE i + 5
    ELSE IF length > 64
    THEN IF offset < 2048 THEN 2 + emit_repeat_size(offset, length - 8)
         ELSE 3 + emit_repeat_size(offset, length - 60)
    ELSE IF length >= 12 \/ offset >= 2048 THEN 3
    ELSE 2

\* a table entry is <<current position, previous position>>
get_cur(e) == e[1]
get_prev(e) == e[2]
BestGet(table, h) == IF h \in DOMAIN table THEN table[h] ELSE <<0, 0>>

score_match(m, next_emit) ==
    LET score == (m.length - m.s) + (IF next_emit = m.s THEN 1 ELSE 0)
        offset == m.s - m.offset
    IN  IF m.rep THEN score - emit_repeat_size(offset, m.length)
        ELSE score - emit_copy_size(offset, m.length)

\* the loop of match_at: the final value of m.length (still counted from 0)
RECURSIVE match_extend(_, _, _)
match_extend(src, s_pos, length) ==
    IF s_pos >= Len(src) THEN length
    ELSE IF Len(src) - s_pos < 8
    THEN IF At(src, s_pos) = At(src, length)
         THEN match_extend(src, s_pos + 1, length + 1)
         ELSE length
    ELSE IF load64(src, s_pos) # load64(src, length)
    THEN length + FirstDiff(load64(src, s_pos), load64(src, length), 0)
    ELSE match_extend(src, s_pos + 8, length + 8)

\* match_at trusting the hash: the four bytes at offset are not compared with first
match_at_unverified(offset, s, first, rep, best, src, next_emit) ==
    IF best.length # 0 /\ best.s - best.offset = s - offset THEN EmptyMatch
    ELSE IF offset >= Len(src) THEN EmptyMatch
    ELSE LET length == match_extend(src, s + 4, 4 + offset) - offset
             m0 == [offset |-> offset, s |-> s, length |-> length, score |-> 0, rep |-> rep]
             m == [m0 EXCEPT !.score = score_match(m0, next_emit)]
         IN  IF m.score <= -(m.s) THEN EmptyMatch ELSE m

match_at(offset, s, first, rep, best, src, next_emit) ==
    IF best.length # 0 /\ best.s - best.offset = s - offset THEN EmptyMatch
    ELSE IF offset >= Len(src) THEN EmptyMatch
    ELSE IF load32(src, offset) # first THEN EmptyMatch
    ELSE LET length == match_extend(src, s + 4, 4 + offset) - offset
             m0 == [offset |-> offset, s |-> s, length |-> length, score |-> 0, rep |-> rep]
             m == [m0 EXCEPT !.score = score_match(m0, next_emit)]
         IN  IF m.score <= -(m.s) THEN EmptyMatch ELSE m

best_of(a, b) ==
    IF b.length = 0 THEN a
    ELSE IF a.length = 0 THEN b
    ELSE IF a.score + b.s >= b.score + a.s THEN a ELSE b

\* best = best_of(best, match_at(offset, s, first, rep, &best, src, next_emit))
Try(best, offset, s, first, rep, src, next_emit) ==
    best_of(best, match_at(offset, s, first, rep, best, src, next_emit))

\* the candidates looked at for position s: the two tables' current and
\* previous entries, then the repeat offset
best_at_s(best, src, s, cv, candidate_l, candidate_s, repeat, next_emit) ==
    LET b1 == Try(best, get_cur(candidate_l), s, Low32(cv), FALSE, src, next_emit)
        b2 == Try(b1, get_prev(candidate_l), s, Low32(cv), FALSE, src, next_emit)
        b3 == Try(b2, get_cur(candidate_s), s, Low32(cv), FALSE, src, next_emit)
        b4 == Try(b3, get_prev(candidate_s), s, Low32(cv), FALSE, src, next_emit)
    IN  IF repeat <= s /\ repeat > 0
        THEN Try(b4, s - repeat + 1, s + 1, Low32(Shr8(cv)), TRUE, src, next_emit)
        ELSE b4

\* "Check s+2"
best_at_s2(best, src, s2, cv1, l_table, s_table, repeat, next_emit) ==
    LET next_short2 == BestGet(s_table, hash4(Shr8(cv1), BEST_S_TABLE_BITS)) IN
    IF s2 < Len(src) - 8
    THEN LET cv2 == load64(src, s2)
             next_long2 == BestGet(l_table, hash8(cv2, BEST_L_TABLE_BITS))
             b0 == IF repeat <= s2 /\ repeat > 0
                   THEN Try(best, s2 - repeat, s2, Low32(cv2), TRUE, src, next_emit)
                   ELSE best
             b1 == Try(b0, get_cur(next_short2), s2, Low32(cv2), FALSE, src, next_emit)
             b2 == Try(b1, get_prev(next_short2), s2, Low32(cv2), FALSE, src, next_emit)
             b3 == Try(b2, get_cur(next_long2), s2, Low32(cv2), FALSE, src, next_emit)
         IN  Try(b3, get_prev(next_long2), s2, Low32(cv2), FALSE, src, next_emit)
    ELSE best

\* "Check s+1", then s+2
best_at_s1(best, src, s, cv, l_table, s_table, repeat, next_emit) ==
    LET next_short == BestGet(s_table, hash4(Shr8(cv), BEST_S_TABLE_BITS))
        s1 == s + 1
    IN  IF s1 < Len(src) - 8
        THEN LET cv1 == load64(src, s1)
                 next_long == BestGet(l_table, hash8(cv1, BEST_L_TABLE_BITS))
                 b1 == Try(best, get_cur(next_short), s1, Low32(cv1), FALSE, src, next_emit)
                 b2 == Try(b1, get_prev(next_short), s1, Low32(cv1), FALSE, src, next_emit)
                 b3 == Try(b2, get_cur(next_long), s1, Low32(cv1), FALSE, src, next_emit)
                 b4 == Try(b3, get_prev(next_long), s1, Low32(cv1), FALSE, src, next_emit)
             IN  best_at_s2(b4, src, s + 2, cv1, l_table, s_table, repeat, next_emit)
        ELSE best

\* "Check at end of match for even better matches"
best_at_end(best, src, l_table, next_emit) ==
    LET s_limit == Len(src) - INPUT_MARGIN
        s_at == best.s + best.length - SKIP_END
        s_back == best.s + SKIP_BEGINNING - SKIP_END
        back_l == best.length - SKIP_BEGINNING
    IN  IF s_at < s_limit /\ s_back < Len(src) - 8 /\ s_at < Len(src) - 8
        THEN LET cv_back == load64(src, s_back)
                 next == BestGet(l_table, hash8(load64(src, s_at), BEST_L_TABLE_BITS))
                 b1 == IF get_cur(next) > back_l
                       THEN Try(best, get_cur(next) - back_l, s_back, Low32(cv_back),
                                FALSE, src, next_emit)
                       ELSE best
             IN  IF get_prev(next) > back_l
                 THEN Try(b1, get_prev(next) - back_l, s_back, Low32(cv_back),
                          FALSE, src, next_emit)
                 ELSE b1
        ELSE best

\* "Extend backwards if not a repeat"
RECURSIVE best_extend_backwards(_, _, _, _)
best_extend_backwards(src, best, s, next_emit) ==
    IF best.offset > 0 /\ s > next_emit /\ At(src, best.offset - 1) = At(src, s - 1)
    THEN best_extend_backwards(src,
             [best EXCEPT !.offset = best.offset - 1, !.length = best.length + 1],
             s - 1, next_emit)
    ELSE [best |-> best, s |-> s]

\* "Fill hash tables for all positions between best.s and s"
RECURSIVE best_fill(_, _, _, _)
best_fill(tabs, src, i, s) ==
    IF i >= s THEN tabs
    ELSE IF i < Len(src) - 8
    THEN LET cv0 == load64(src, i)
             long0 == hash8(cv0, BEST_L_TABLE_BITS)
             short0 == hash4(cv0, BEST_S_TABLE_BITS)
         IN  best_fill([l |-> TableSet(tabs.l, long0, <<i, get_cur(BestGet(tabs.l, long0))>>),
                        s |-> TableSet(tabs.s, short0, <<i, get_cur(BestGet(tabs.s, short0))>>)],
                       src, i + 1, s)
    ELSE best_fill(tabs, src, i + 1, s)

\* one iteration of the inner loop ("Find best match")
BestSearch ==
    LET src == enc_src
        s == enc_s
        cv == enc_cv
        s_limit == Len(src) - INPUT_MARGIN
        step == (s - enc_next_emit) \div 256 + 1
        next_s == IF step > MAX_SKIP THEN s + MAX_SKIP ELSE step + s
        hash_l == hash8(cv, BEST_L_TABLE_BITS)
        hash_s == hash4(cv, BEST_S_TABLE_BITS)
        candidate_l == BestGet(enc_l_table, hash_l)
        candidate_s == BestGet(enc_s_table, hash_s)
        b5 == best_at_s(enc_best, src, s, cv, candidate_l, candidate_s,
                        enc_repeat, enc_next_emit)
        b6 == IF b5.length > 0
              THEN best_at_end(best_at_s1(b5, src, s, cv, enc_l_table, enc_s_table,
                                          enc_repeat, enc_next_emit),
                               src, enc_l_table, enc_next_emit)
              ELSE b5
    IN  /\ phase = "best"
        /\ enc_pc = "search"
        /\ UNCHANGED <<enc_src, enc_cap, enc_out, enc_dst, enc_next_emit, enc_candidate,
                       fastLoc, enc_repeat, enc_next_s>>
        /\ IF next_s > s_limit
           THEN /\ enc_pc' = "remain"
                /\ UNCHANGED <<enc_s, enc_l_table, enc_s_table, enc_cv, enc_best>>
           ELSE /\ enc_l_table' = TableSet(enc_l_table, hash_l, <<s, get_cur(candidate_l)>>)
                /\ enc_s_table' = TableSet(enc_s_table, hash_s, <<s, get_cur(candidate_s)>>)
                /\ enc_best' = b6
                /\ IF b6.length > 0
                   THEN enc_pc' = "emit" /\ UNCHANGED <<enc_s, enc_cv>>
                   ELSE IF next_s >= Len(src) - 8
                   THEN enc_pc' = "remain" /\ UNCHANGED <<enc_s, enc_cv>>
                   ELSE /\ enc_pc' = "search"
                        /\ enc_cv' = load64(src, next_s)
                        /\ enc_s' = next_s

\* return 0 out of the block encoder, then the tail of encode_best()
BestReturn0(dst) ==
    LET r == encode_tail(enc_src, dst, 0, enc_cap)
    IN  /\ enc_pc' = r.pc
        /\ enc_out' = r.out

\* the rest of an iteration of the outer loop, from "Extend backwards" on
BestEmit ==
    LET src == enc_src
        s_limit == Len(src) - INPUT_MARGIN
        dst_limit == Len(src) - 5
        e == IF enc_best.rep THEN [best |-> enc_best, s |-> enc_best.s]
             ELSE best_extend_backwards(src, enc_best, enc_best.s, enc_next_emit)
        best == e.best
        base == e.s
        offset == base - best.offset
        s == base + best.length
        lit == emit_literal(Slice(src, enc_next_emit, base))
        cp == IF best.rep /\ enc_next_emit > 0 THEN emit_repeat(offset, best.length)
              ELSE emit_copy(offset, best.length)
        dst == (enc_dst \o lit) \o cp
        tabs == best_fill([l |-> enc_l_table, s |-> enc_s_table], src, best.s + 1, s)
        skip_s == best.s + 1
    IN  /\ phase = "best"
        /\ enc_pc = "emit"
        /\ enc_best' = EmptyMatch
        /\ UNCHANGED <<enc_src, enc_cap, enc_candidate, fastLoc, enc_next_s>>
        /\ IF Len(enc_dst) + (base - enc_next_emit) > dst_limit
           THEN /\ BestReturn0(enc_dst)
                /\ UNCHANGED <<enc_dst, enc_s, enc_next_emit, enc_l_table, enc_s_table,
                               enc_repeat, enc_cv>>
           ELSE IF offset > 65535 /\ s - base <= 5 /\ ~best.rep
           THEN /\ enc_s' = skip_s
                /\ enc_pc' = IF skip_s >= s_limit THEN "remain" ELSE "search"
                /\ enc_cv' = IF skip_s < s_limit /\ skip_s < Len(src) - 8
                             THEN load64(src, skip_s) ELSE enc_cv
                /\ UNCHANGED <<enc_dst, enc_next_emit, enc_out, enc_l_table, enc_s_table,
                               enc_repeat>>
           ELSE IF Len(dst) > enc_cap
           THEN /\ enc_pc' = "panic"
                /\ UNCHANGED <<enc_dst, enc_s, enc_next_emit, enc_out, enc_l_table,
                               enc_s_table, enc_repeat, enc_cv>>
           ELSE /\ enc_dst' = dst
                /\ enc_s' = s
                /\ enc_next_emit' = s
                /\ enc_repeat' = offset
                /\ IF s >= s_limit
                   THEN /\ enc_pc' = "remain"
                        /\ UNCHANGED <<enc_out, enc_l_table, enc_s_table, enc_cv>>
                   ELSE IF Len(dst) > dst_limit
                   THEN /\ BestReturn0(dst)
                        /\ UNCHANGED <<enc_l_table, enc_s_table, enc_cv>>
                   ELSE /\ enc_pc' = "search"
                        /\ enc_l_table' = tabs.l
                        /\ enc_s_table' = tabs.s
                        /\ enc_cv' = IF s < Len(src) - 8 THEN load64(src, s) ELSE enc_cv
                        /\ UNCHANGED enc_out

\* "Emit remaining literals", return d, and the tail of encode_best()
BestRemain ==
    LET src == enc_src
        dst_limit == Len(src) - 5
        rest == enc_next_emit < Len(src)
        lit == IF rest THEN emit_literal(Slice(src, enc_next_emit, Len(src))) ELSE <<>>
        dst == enc_dst \o lit
        r == encode_tail(src, dst, Len(dst), enc_cap)
    IN  /\ phase = "best"
        /\ enc_pc = "remain"
        /\ UNCHANGED <<enc_src, enc_cap, fastLoc, enc_s, enc_next_emit, enc_candidate,
                       betterLoc>>
        /\ IF rest /\ Len(enc_dst) + Len(src) - enc_next_emit > dst_limit
           THEN BestReturn0(enc_dst) /\ UNCHANGED enc_dst
           ELSE IF Len(dst) > enc_cap
           THEN enc_pc' = "panic" /\ UNCHANGED <<enc_dst, enc_out>>
           ELSE enc_pc' = r.pc /\ enc_out' = r.out /\ enc_dst' = dst
----------------------------------------------------------------------------
(* encode.rs: encode_block_snappy *)

TABLE_BITS == 14

\* the forward extension with the byte loop of encode_block behind it
snappy_extend8_tail(src, s, candidate) ==
    extend1(src, extend8(src, s, candidate).s, extend8(src, s, candidate).candidate).s

\* while s <= src.len() - 8 { ... } of encode_block_snappy
RECURSIVE snappy_extend8(_, _, _)
snappy_extend8(src, s, candidate) ==
    IF s > Len(src) - 8 THEN s
    ELSE IF load64(src, s) # load64(src, candidate)
    THEN s + FirstDiff(load64(src, s), load64(src, candidate), 0)
    ELSE snappy_extend8(src, s + 8, candidate + 8)

\* one iteration of the search loop of encode_block_snappy
SnappySearch ==
    LET src == enc_src
        shift == 32 - TABLE_BITS
        s_limit == Len(src) - INPUT_MARGIN
        next_s == enc_s + (enc_skip \div 32)
        h == hash(src, enc_s, shift)
        candidate == TableGet(enc_table, h)
    IN  /\ phase = "snappy"
        /\ enc_pc = "search"
        /\ UNCHANGED betterLoc
        /\ enc_skip' = enc_skip + 1
        /\ UNCHANGED <<enc_src, enc_cap, enc_dst, enc_next_emit, enc_out>>
        /\ IF next_s > s_limit
           THEN enc_pc' = "remain" /\ UNCHANGED <<enc_s, enc_candidate, enc_table>>
           ELSE /\ enc_candidate' = candidate
                /\ enc_table' = TableSet(enc_table, h, enc_s)
                /\ IF load32(src, enc_s) = load32(src, candidate)
                   THEN enc_pc' = "emit" /\ enc_s' = enc_s
                   ELSE enc_pc' = "search" /\ enc_s' = next_s

\* the rest of an iteration of the outer loop, from "Extend backwards" on
SnappyEmit ==
    LET src == enc_src
        shift == 32 - TABLE_BITS
        s_limit == Len(src) - INPUT_MARGIN
        b == extend_backwards(src, enc_candidate, enc_s, enc_next_emit)
        lit == IF b.s > enc_next_emit
               THEN emit_literal(Slice(src, enc_next_emit, b.s)) ELSE <<>>
        base == b.s
        repeat == base - b.candidate
        s == snappy_extend8(src, base + 4, b.candidate + 4)
        cp == emit_copy_no_repeat(repeat, s - base)
        dst == (enc_dst \o lit) \o cp
        h1 == hash(src, s - 1, shift)
    IN  /\ phase = "snappy"
        /\ enc_pc = "emit"
        /\ UNCHANGED <<enc_src, enc_cap, enc_out, betterLoc>>
        /\ IF Len(dst) > enc_cap
           THEN /\ enc_pc' = "panic"
                /\ UNCHANGED <<enc_dst, enc_s, enc_next_emit, enc_candidate,
                               enc_skip, enc_table>>
           ELSE /\ enc_dst' = dst
                /\ enc_next_emit' = s
                /\ enc_candidate' = b.candidate
                /\ IF s >= s_limit
                   THEN enc_pc' = "remain" /\ enc_s' = s /\ UNCHANGED <<enc_skip, enc_table>>
                   ELSE /\ enc_table' = TableSet(enc_table, h1, s - 1)
                        /\ enc_s' = s + 1
                        /\ enc_skip' = 32
                        /\ enc_pc' = "search"

\* after the loop: emit the remaining literal, the worthwhile check, and
\* the tail of encode_snappy()
SnappyRemain ==
    LET src == enc_src
        lit == IF enc_next_emit < Len(src)
               THEN emit_literal(Slice(src, enc_next_emit, Len(src))) ELSE <<>>
        dst == enc_dst \o lit
        d == Len(dst)
        n == IF d >= Len(src) - Len(src) \div 32 THEN 0 ELSE d
        r == encode_tail(src, dst, n, enc_cap)
    IN  /\ phase = "snappy"
        /\ enc_pc = "remain"
        /\ UNCHANGED <<enc_src, enc_cap, enc_s, enc_next_emit, enc_candidate,
                       enc_skip, enc_table, betterLoc>>
        /\ IF d > enc_cap
           THEN enc_pc' = "panic" /\ UNCHANGED <<enc_dst, enc_out>>
           ELSE enc_pc' = r.pc /\ enc_out' = r.out /\ enc_dst' = dst
----------------------------------------------------------------------------
(* decode() on arbitrary bytes *)

MaxBodyLen == 7
LenBytes == {2, 5, 9, 240}
TagBytes == {0, 1, 2, 3, 240}

InitDec ==
    /\ phase = "dec"
    /\ y = <<>>
    /\ dec_src = <<>>
    /\ dec_len = 0
    /\ dec_dst = <<>>
    /\ dec_s = 0
    /\ dec_d = 0
    /\ dec_offset = 0
    /\ dec_pc = "idle"
    /\ dec_ev = NoEv
    /\ EncIdle
    /\ StrIdle

\* the caller assembles the bytes it is going to hand to decode()
DecInput ==
    /\ phase = "dec"
    /\ dec_pc = "idle"
    /\ Len(y) < 1 + MaxBodyLen
    /\ \E b \in (IF Len(y) = 0 THEN LenBytes ELSE TagBytes) : y' = Append(y, b)
    /\ UNCHANGED <<phase, dec_src, dec_len, dec_dst, dec_s, dec_d, dec_offset, dec_pc, dec_ev>>
    /\ UNCHANGED <<encVars, strVars>>

DecCall ==
    /\ phase = "dec"
    /\ dec_pc = "idle"
    /\ DecodeBegin(y)
    /\ UNCHANGED <<phase, encVars, strVars>>

DecStep ==
    /\ (DecFast \/ DecSlow \/ DecEnd)
    /\ UNCHANGED <<phase, encVars, strVars>>

NextDec == DecInput \/ DecCall \/ DecStep

SpecDec == InitDec /\ [][NextDec]_vars
----------------------------------------------------------------------------
(* encode then decode *)

NumWords == 5
Words == {<<1, 2, 3, 4, 5, 9, 7, 8>>, <<1, 2, 3, 4, 5, 5, 7, 8>>,
          <<0, 0, 0, 0, 0, 0, 0, 0>>, <<10, 11, 12, 13, 14, 15, 16, 17>>}

ShortWord == <<1, 2, 3>>

DecIdle ==
    /\ y = <<>>
    /\ dec_src = <<>>
    /\ dec_len = 0
    /\ dec_dst = <<>>
    /\ dec_s = 0
    /\ dec_d = 0
    /\ dec_offset = 0
    /\ dec_pc = "idle"
    /\ dec_ev = NoEv

\* the caller assembles the bytes it is going to hand to encode()
EncInput ==
    /\ enc_pc = "idle"
    /\ \E w \in Words \cup (IF enc_src = <<>> THEN {ShortWord} ELSE {}) :
          /\ Len(enc_src) + Len(w) <= 8 * NumWords
          /\ enc_src' = enc_src \o w
    /\ UNCHANGED <<phase, decVars, enc_cap, enc_dst, enc_s, enc_next_emit,
                   enc_candidate, fastLoc, betterLoc, enc_pc, enc_out, strVars>>

\* the caller hands the encoder's output to decode()
RtDecode ==
    /\ enc_pc = "done"
    /\ dec_pc = "idle"
    /\ DecodeBegin(enc_out)
    /\ UNCHANGED <<phase, encVars, strVars>>

\* decode(encode(x)) = Ok(x), once both have returned
RoundTrip ==
    (enc_pc = "done" /\ dec_pc \notin {"idle", "run"}) =>
        (dec_pc = "ok" /\ dec_dst = enc_src)

InitFast == phase = "fast" /\ DecIdle /\ EncIdle /\ StrIdle
FastCall ==
    /\ phase = "fast"
    /\ enc_pc = "idle"
    /\ EncodeBegin(enc_src, "search", 0)
    /\ UNCHANGED <<phase, decVars, strVars>>
FastStep == (FastSearch \/ FastEmit \/ FastRemain) /\ UNCHANGED <<phase, decVars, strVars>>
NextFast == EncInput \/ FastCall \/ FastStep \/ RtDecode \/ DecStep
SpecFast == InitFast /\ [][NextFast]_vars

\* C1: decode(encode(x)) = Ok(x) for every x (fast level)
C1_FastRoundTrip == phase = "fast" => RoundTrip

InitBetter == phase = "better" /\ DecIdle /\ EncIdle /\ StrIdle
BetterCall ==
    /\ phase = "better"
    /\ enc_pc = "idle"
    /\ EncodeBegin(enc_src, "search", 0)
    /\ UNCHANGED <<phase, decVars, strVars>>
BetterStep == (BetterSearch \/ BetterEmit \/ BetterRemain) /\ UNCHANGED <<phase, decVars, strVars>>
NextBetter == EncInput \/ BetterCall \/ BetterStep \/ RtDecode \/ DecStep
SpecBetter == InitBetter /\ [][NextBetter]_vars

\* C2: decode(encode_better(x)) = Ok(x) for every x, runs of zero bytes included
C2_BetterRoundTrip == phase = "better" => RoundTrip

InitBest == phase = "best" /\ DecIdle /\ EncIdle /\ StrIdle
BestCall ==
    /\ phase = "best"
    /\ enc_pc = "idle"
    /\ EncodeBegin(enc_src, "search", 1)
    /\ UNCHANGED <<phase, decVars, strVars>>
BestStep == (BestSearch \/ BestEmit \/ BestRemain) /\ UNCHANGED <<phase, decVars, strVars>>
NextBest == EncInput \/ BestCall \/ BestStep \/ RtDecode \/ DecStep
SpecBest == InitBest /\ [][NextBest]_vars

InitSnappy == phase = "snappy" /\ DecIdle /\ EncIdle /\ StrIdle
SnappyCall ==
    /\ phase = "snappy"
    /\ enc_pc = "idle"
    /\ EncodeBegin(enc_src, "search", 1)
    /\ UNCHANGED <<phase, decVars, strVars>>
SnappyStep == (SnappySearch \/ SnappyEmit \/ SnappyRemain) /\ UNCHANGED <<phase, decVars, strVars>>

\* a caller hands over ten repetitions of an 8-byte word, so that a match
\* longer than 64 bytes is emitted
LongRun == SubSeq([i \in 1..80 |-> ((i - 1) % 8) + 1], 1, 80)
SnappyLongInput ==
    /\ phase = "snappy"
    /\ enc_pc = "idle"
    /\ enc_src = <<>>
    /\ enc_src' = LongRun
    /\ UNCHANGED <<phase, decVars, enc_cap, enc_dst, enc_s, enc_next_emit,
                   enc_candidate, fastLoc, betterLoc, enc_pc, enc_out, strVars>>

NextSnappy == EncInput \/ SnappyLongInput \/ SnappyCall \/ SnappyStep \/ RtDecode \/ DecStep
SpecSnappy == InitSnappy /\ [][NextSnappy]_vars

\* C4: decode(encode_snappy(x)) = Ok(x) for every x
C4_SnappyRoundTrip == phase = "snappy" => RoundTrip
C4_Witness ==
    /\ phase = "snappy"
    /\ dec_pc = "ok"
    /\ dec_dst = enc_src
    /\ dec_offset > 0
    /\ Len(enc_out) < Len(enc_src)

\* the tags of a block body from s on, as the decoder's tag readers see them:
\* kind, the offset field, the length, and whether it is a repeat
RECURSIVE tags_from(_, _)
tags_from(src, s) ==
    LET tag == At(src, s) % 4
        lit == decode_literal_length(src, s)
        c1 == decode_copy1(src, s, 0)
        k == IF tag = TAG_COPY2 THEN 3 ELSE 5
        bad == <<[kind |-> "bad", offset |-> 0, length |-> 0, rep |-> FALSE]>>
    IN  IF s >= Len(src) THEN <<>>
        ELSE IF tag = TAG_LITERAL
        THEN IF ~lit.ok THEN bad
             ELSE <<[kind |-> "lit", offset |-> 0, length |-> lit.length, rep |-> FALSE]>>
                  \o tags_from(src, s + lit.n + lit.length)
        ELSE IF tag = TAG_COPY1
        THEN IF ~c1.ok THEN bad
             ELSE <<[kind |-> "copy1", offset |-> c1.offset, length |-> c1.length,
                     rep |-> c1.rep]>> \o tags_from(src, s + c1.n)
        ELSE IF s + k > Len(src) THEN bad
        ELSE <<[kind |-> IF tag = TAG_COPY2 THEN "copy2" ELSE "copy4",
                offset |-> LeVal(src, s + 1, k - 1),
                length |-> 1 + (At(src, s) \div 4), rep |-> FALSE]>>
             \o tags_from(src, s + k)

\* the tags of a block: the body after the varint header
block_tags(block) == tags_from(Slice(block, decode_varint(block).n, Len(block)), 0)

\* C21: a block returned by encode_snappy holds no repeat tag: every tag is
\* a literal or a Copy1, Copy2 or Copy4 with an offset field of at least 1,
\* and the decoder never handles a repeat while it decodes the block
C21_SnappyNoRepeat ==
    phase = "snappy" =>
        /\ enc_pc = "done" =>
              \A i \in 1..Len(block_tags(enc_out)) :
                 LET t == block_tags(enc_out)[i] IN
                 /\ t.kind \in {"lit", "copy1", "copy2", "copy4"}
                 /\ ~t.rep
                 /\ t.kind # "lit" => t.offset >= 1
        /\ ~(dec_ev.kind = "copy" /\ dec_ev.rep)
C21_Witness ==
    /\ phase = "snappy"
    /\ enc_pc = "done"
    /\ enc_src = LongRun
    /\ Len(block_tags(enc_out)) = 4
    /\ block_tags(enc_out)[2].kind = "copy2" /\ block_tags(enc_out)[2].length = 60
    /\ block_tags(enc_out)[3].kind = "copy1" /\ block_tags(enc_out)[3].length = 8
    /\ block_tags(enc_out)[3].offset = 8
    /\ dec_pc = "ok"
----------------------------------------------------------------------------
(* crc.rs *)

\* a ^ b on bytes
XorByte(a, b) ==
    LET bit(i) == (((a \div (2 ^ i)) + (b \div (2 ^ i))) % 2) * (2 ^ i)
    IN  bit(0) + bit(1) + bit(2) + bit(3) + bit(4) + bit(5) + bit(6) + bit(7)

\* a ^ b and a >> 1 on a u32 held as its four little-endian bytes
\* XorByte for every pair of bytes, worked out once
XorTable ==
    SubSeq([a \in 1..256 |-> SubSeq([b \in 1..256 |-> XorByte(a - 1, b - 1)], 1, 256)],
           1, 256)

Xor32(a, b) == <<XorTable[a[1] + 1][b[1] + 1], XorTable[a[2] + 1][b[2] + 1],
                 XorTable[a[3] + 1][b[3] + 1], XorTable[a[4] + 1][b[4] + 1]>>
Shr1(a) == <<(a[1] \div 2) + 128 * (a[2] % 2), (a[2] \div 2) + 128 * (a[3] % 2),
             (a[3] \div 2) + 128 * (a[4] % 2), a[4] \div 2>>

\* crc32fast::Hasher: CRC-32 with the reflected polynomial 0xEDB88320
CRC_POLY == <<32, 131, 184, 237>>

RECURSIVE crc_shift(_, _)
crc_shift(c, k) ==
    IF k = 0 THEN c
    ELSE crc_shift(IF c[1] % 2 = 1 THEN Xor32(Shr1(c), CRC_POLY) ELSE Shr1(c), k - 1)

\* the eight shifts of one byte: crc_table[b + 1] is crc_shift of the u32 b
crc_table == SubSeq([b \in 1..256 |-> crc_shift(<<b - 1, 0, 0, 0>>, 8)], 1, 256)

\* hasher.update(&data[lo..hi]), hi > lo, one byte after the other: the range
\* is halved rather than walked so that the evaluation stays shallow
RECURSIVE crc_update(_, _, _, _)
crc_update(c, data, lo, hi) ==
    LET mid == (lo + hi) \div 2
        left == crc_update(c, data, lo, mid)
    IN  IF hi = lo + 1
        THEN Xor32(<<c[2], c[3], c[4], 0>>, crc_table[XorTable[c[1] + 1][At(data, lo) + 1] + 1])
        ELSE IF Len(left) = 4 THEN crc_update(left, data, mid, hi)
        ELSE <<>>

\* hasher.finalize()
crc_finalize(c) == Xor32(c, <<255, 255, 255, 255>>)

\* c.rotate_right(15): bit i of the result is bit (i + 15) % 32 of c
rotate_right15(c) ==
    LET bit(i) == (c[(i \div 8) + 1] \div (2 ^ (i % 8))) % 2
        byte(k) == bit((8 * k + 15) % 32) + 2 * bit((8 * k + 16) % 32)
                    + 4 * bit((8 * k + 17) % 32) + 8 * bit((8 * k + 18) % 32)
                    + 16 * bit((8 * k + 19) % 32) + 32 * bit((8 * k + 20) % 32)
                    + 64 * bit((8 * k + 21) % 32) + 128 * bit((8 * k + 22) % 32)
    IN  <<byte(0), byte(1), byte(2), byte(3)>>

\* 0xa282ead8
MASK_DELTA == <<216, 234, 130, 162>>

\* a.wrapping_add(b) on little-endian bytes
wrapping_add(a, b) ==
    LET s1 == a[1] + b[1]
        s2 == a[2] + b[2] + (s1 \div 256)
        s3 == a[3] + b[3] + (s2 \div 256)
        s4 == a[4] + b[4] + (s3 \div 256)
    IN  <<s1 % 256, s2 % 256, s3 % 256, s4 % 256>>

\* crc(data).to_le_bytes()
crc(data) ==
    LET init == <<255, 255, 255, 255>>
        c == crc_finalize(IF data = <<>> THEN init ELSE crc_update(init, data, 0, Len(data)))
    IN  wrapping_add(rotate_right15(c), MASK_DELTA)

----------------------------------------------------------------------------
(* constants.rs: stream framing *)

CHUNK_TYPE_COMPRESSED_DATA == 0
CHUNK_TYPE_UNCOMPRESSED_DATA == 1
CHUNK_TYPE_INDEX == 153
CHUNK_TYPE_PADDING == 254
CHUNK_TYPE_STREAM_IDENTIFIER == 255
MAGIC_CHUNK == <<255, 6, 0, 0, 83, 50, 115, 84, 119, 79>>
MAGIC_CHUNK_SNAPPY == <<255, 6, 0, 0, 115, 78, 97, 80, 112, 89>>
CHECKSUM_SIZE == 4
SKIPPABLE_FRAME_HEADER == 4
MAX_CHUNK_SIZE == 16777215

----------------------------------------------------------------------------
(* writer.rs *)

\* the local variables of encode() go out of scope
EncReset ==
    /\ enc_src' = <<>>
    /\ enc_cap' = 0
    /\ enc_dst' = <<>>
    /\ enc_s' = 0
    /\ enc_next_emit' = 0
    /\ enc_candidate' = 0
    /\ enc_skip' = 0
    /\ enc_table' = EmptyTable
    /\ enc_l_table' = EmptyTable
    /\ enc_s_table' = EmptyTable
    /\ enc_repeat' = 0
    /\ enc_cv' = Zero64
    /\ enc_next_s' = 0
    /\ enc_best' = EmptyMatch
    /\ enc_pc' = "idle"
    /\ enc_out' = <<>>

\* Writer::write: the loop up to its end or its next call of flush_block;
\* rest is buf[written..]
write_fill(buf, data) ==
    LET space_in_buf == w_block - Len(buf)
        to_write == Min(Len(data), space_in_buf)
    IN  [buf |-> buf \o SubSeq(data, 1, to_write),
         rest |-> SubSeq(data, to_write + 1, Len(data))]

\* the programs that run a Writer
WriterPhases == {"stream", "writer", "reset", "block"}

\* write_header: what the underlying writer has received, and total_written
write_header_always(out, total, wrote_header) ==
    [out |-> out \o MAGIC_CHUNK, total |-> total + Len(MAGIC_CHUNK)]
write_header(out, total, wrote_header) ==
    IF ~wrote_header
    THEN [out |-> out \o MAGIC_CHUNK, total |-> total + Len(MAGIC_CHUNK)]
    ELSE [out |-> out, total |-> total]

\* calc_skippable_frame: while to_add < SKIPPABLE_FRAME_HEADER { to_add += want_multiple }
RECURSIVE pad_to_header(_, _)
pad_to_header(to_add, want_multiple) ==
    IF to_add < SKIPPABLE_FRAME_HEADER
    THEN pad_to_header(to_add + want_multiple, want_multiple)
    ELSE to_add

calc_skippable_frame_short(written, want_multiple) ==
    IF want_multiple <= 1 \/ written % want_multiple = 0 THEN 0
    ELSE want_multiple - (written % want_multiple)
calc_skippable_frame(written, want_multiple) ==
    IF want_multiple <= 1 \/ written % want_multiple = 0 THEN 0
    ELSE pad_to_header(want_multiple - (written % want_multiple), want_multiple)

\* write_skippable_frame: the bytes it sends to the underlying writer (none
\* when it returns early or with an error)
write_skippable_frame(total) ==
    LET data_len == total - SKIPPABLE_FRAME_HEADER IN
    IF total = 0 \/ total < SKIPPABLE_FRAME_HEADER
          \/ total >= MAX_BLOCK_SIZE + SKIPPABLE_FRAME_HEADER
    THEN <<>>
    ELSE <<CHUNK_TYPE_PADDING>> \o Le(data_len, 3)
            \o SubSeq([i \in 1..data_len |-> (i - 1) % 256], 1, data_len)

\* apply_padding, called by drop
apply_padding(out, total, padding) ==
    LET padding_needed == calc_skippable_frame(total, padding)
        frame == write_skippable_frame(padding_needed)
    IN  IF padding > 1 /\ padding_needed > 0
        THEN [out |-> out \o frame, total |-> total + Len(frame)]
        ELSE [out |-> out, total |-> total]

\* flush_block with a non-empty buf, up to and including the call of
\* encode(): write_header, then the encoder starts on buf
FlushBegin(out, total, buf, ctx) ==
    /\ w_out' = write_header(out, total, w_wrote_header).out
    /\ w_total_written' = write_header(out, total, w_wrote_header).total
    /\ w_wrote_header' = TRUE
    /\ w_pc' = "flush"
    /\ w_ctx' = ctx
    /\ EncodeBegin(buf, "search", 0)

\* the chunk flush_block writes: type, 24-bit length, checksum, data
chunk_bytes(compressed, checksum) ==
    <<CHUNK_TYPE_COMPRESSED_DATA>> \o Le(Len(compressed) + CHECKSUM_SIZE, 3)
        \o checksum \o compressed

\* flush_block after encode() returned, and then the rest of its caller
WFlushEnd ==
    LET chunk_len == Len(enc_out) + CHECKSUM_SIZE
        out == w_out \o chunk_bytes(enc_out, crc(w_buf))
        total == w_total_written + 1 + 3 + chunk_len
        r == write_fill(<<>>, w_pending)
        closed == apply_padding(out, total, w_padding)
    IN  /\ phase \in WriterPhases
        /\ w_pc = "flush"
        /\ enc_pc \in {"done", "panic"}
        /\ UNCHANGED <<w_x, w_calls, w_foreign, w_padding, w_block, w_old, rVars, restVars, decVars, phase>>
        /\ IF enc_pc = "panic"
           THEN /\ w_pc' = "panic"
                /\ EncReset
                /\ UNCHANGED <<w_out, w_buf, w_wrote_header, w_total_written,
                               w_pending, w_ctx>>
           ELSE IF chunk_len > MAX_CHUNK_SIZE
           THEN /\ w_pc' = IF w_ctx = "drop" THEN "closed" ELSE "idle"
                /\ w_ctx' = "none"
                /\ w_pending' = <<>>
                /\ EncReset
                /\ w_out' = IF w_ctx = "drop"
                             THEN apply_padding(w_out, w_total_written, w_padding).out
                             ELSE w_out
                /\ w_total_written' = IF w_ctx = "drop"
                                       THEN apply_padding(w_out, w_total_written, w_padding).total
                                       ELSE w_total_written
                /\ UNCHANGED <<w_buf, w_wrote_header>>
           ELSE IF w_ctx = "write" /\ r.rest # <<>>
           THEN /\ w_buf' = r.buf
                /\ w_pending' = r.rest
                /\ FlushBegin(out, total, r.buf, "write")
           ELSE /\ w_out' = IF w_ctx = "drop" THEN closed.out ELSE out
                /\ w_total_written' = IF w_ctx = "drop" THEN closed.total ELSE total
                /\ w_buf' = IF w_ctx = "write" THEN r.buf ELSE <<>>
                /\ w_pending' = <<>>
                /\ w_pc' = IF w_ctx = "drop" THEN "closed" ELSE "idle"
                /\ w_ctx' = "none"
                /\ EncReset
                /\ UNCHANGED w_wrote_header

----------------------------------------------------------------------------
(* reader.rs *)

\* Reader::new
max_block_size == MAX_BLOCK_SIZE

\* the fields of the Reader and the locals of the running read call
RCur ==
    [off |-> r_off, buf |-> r_buf, pos |-> r_pos, read_header |-> r_read_header,
     eof |-> r_eof, offset |-> r_offset, pc |-> r_pc, n |-> r_n, type |-> r_type,
     crc |-> r_crc, last |-> r_last, erred |-> r_erred, ret |-> r_ret,
     ignore |-> r_ignore, target |-> r_target, to_skip |-> r_to_skip, val |-> r_val]

RSet(st) ==
    /\ r_off' = st.off
    /\ r_buf' = st.buf
    /\ r_pos' = st.pos
    /\ r_read_header' = st.read_header
    /\ r_eof' = st.eof
    /\ r_offset' = st.offset
    /\ r_pc' = st.pc
    /\ r_n' = st.n
    /\ r_type' = st.type
    /\ r_crc' = st.crc
    /\ r_last' = st.last
    /\ r_erred' = st.erred
    /\ r_ret' = st.ret
    /\ r_ignore' = st.ignore
    /\ r_target' = st.target
    /\ r_to_skip' = st.to_skip
    /\ r_val' = st.val

\* the programs that run a Reader
ReaderPhases == {"stream", "read", "seek", "conc", "trunc", "reset"}

\* read returns Err (and with it the seek call that called read): the
\* underlying reader stands at off
read_err(st, kind, off) ==
    [st EXCEPT !.off = off, !.pc = "idle", !.n = 0, !.crc = <<>>,
               !.last = kind, !.erred = TRUE, !.to_skip = 0, !.val = -1]

\* the end of read: copy from buffer. Called by seek (to_skip > 0), the
\* bytes go to skip_buf and the loop of seek goes on: Err at EOF, the next
\* read, or Ok(target_pos)
RECURSIVE read_copy(_), read_loop(_)
read_copy(st) ==
    LET available == Len(st.buf) - st.pos
        to_copy == Min(available, st.n)
        ret == [st EXCEPT !.pc = "idle", !.n = 0, !.crc = <<>>]
        skipped == [st EXCEPT !.pos = @ + to_copy, !.offset = @ + to_copy,
                              !.to_skip = @ - to_copy,
                              !.n = Min(st.to_skip - to_copy, 8192)]
    IN  IF st.to_skip > 0
        THEN IF available = 0
             THEN [ret EXCEPT !.last = "err_seek_eof", !.erred = TRUE, !.to_skip = 0,
                              !.val = -1]
             ELSE IF skipped.to_skip > 0 THEN read_loop(skipped)
             ELSE [skipped EXCEPT !.pc = "idle", !.n = 0, !.crc = <<>>, !.last = "seek_ok",
                                  !.val = st.target, !.ret = <<>>]
        ELSE IF available = 0
        THEN [ret EXCEPT !.last = "eof"]
        ELSE [ret EXCEPT !.last = "ok",
                         !.ret = @ \o Slice(st.buf, st.pos, st.pos + to_copy),
                         !.pos = @ + to_copy,
                         !.offset = @ + to_copy]

\* while self.pos >= self.buf.len() && !self.eof { buf.clear(); pos = 0; ... }
read_loop(st) ==
    IF st.pos >= Len(st.buf) /\ ~st.eof
    THEN [st EXCEPT !.buf = <<>>, !.pos = 0, !.pc = "chunk"]
    ELSE read_copy(st)

\* read_stream_identifier: Ok or the kind of error
read_stream_identifier(stream, off, ignore_stream_id) ==
    LET magic == Slice(stream, off, off + Len(MAGIC_CHUNK))
    IN  IF ignore_stream_id THEN [ok |-> TRUE, kind |-> "", off |-> off]
        ELSE IF Len(stream) - off < Len(MAGIC_CHUNK) THEN [ok |-> FALSE, kind |-> "err_eof", off |-> Len(stream)]
        ELSE IF magic = MAGIC_CHUNK \/ magic = MAGIC_CHUNK_SNAPPY
        THEN [ok |-> TRUE, kind |-> "", off |-> off + Len(MAGIC_CHUNK)]
        ELSE [ok |-> FALSE, kind |-> "err_magic", off |-> off + Len(MAGIC_CHUNK)]

\* if actual_crc != expected_crc
crc_mismatch_never(actual_crc, expected_crc) == FALSE
crc_mismatch(actual_crc, expected_crc) == actual_crc # expected_crc

\* read_chunk on a skippable chunk type
is_skippable_narrow(chunk_type) ==
    \/ chunk_type \in {CHUNK_TYPE_PADDING, CHUNK_TYPE_INDEX}
    \/ (chunk_type >= 128 /\ chunk_type <= 253)
is_skippable(chunk_type) ==
    \/ chunk_type \in {CHUNK_TYPE_PADDING, CHUNK_TYPE_INDEX, CHUNK_TYPE_STREAM_IDENTIFIER}
    \/ (chunk_type >= 128 /\ chunk_type <= 253)

\* read_uncompressed_chunk, the reader standing behind the chunk header
read_uncompressed_chunk(st, stream, body, chunk_len) ==
    LET data_len == chunk_len - CHECKSUM_SIZE
        expected_crc == Slice(stream, body, body + CHECKSUM_SIZE)
        data == Slice(stream, body + CHECKSUM_SIZE, body + chunk_len)
    IN  IF chunk_len < CHECKSUM_SIZE THEN read_err(st, "err_small", body)
        ELSE IF Len(stream) - body < CHECKSUM_SIZE THEN read_err(st, "err_eof", Len(stream))
        ELSE IF data_len > max_block_size THEN read_err(st, "err_size", body + CHECKSUM_SIZE)
        ELSE IF Len(stream) - body < chunk_len THEN read_err(st, "err_eof", Len(stream))
        ELSE IF crc_mismatch(crc(data), expected_crc)
        THEN read_err(st, "err_crc", body + chunk_len)
        ELSE read_loop([st EXCEPT !.off = body + chunk_len, !.buf = @ \o data])

\* Reader::read, the caller's buffer has st.n bytes: up to its return or
\* its first call of read_chunk
read_begin(st, stream) ==
    LET h == read_stream_identifier(stream, st.off, st.ignore) IN
    IF st.read_header THEN read_loop(st)
    ELSE IF ~h.ok THEN read_err(st, h.kind, h.off)
    ELSE read_loop([st EXCEPT !.off = h.off, !.read_header = TRUE])

RRead(n) ==
    /\ phase \in ReaderPhases
    /\ phase \in {"stream", "reset"} => w_pc = "closed"
    /\ phase = "conc" => cw_pc = "closed"
    /\ r_pc = "idle"
    /\ RSet(read_begin([RCur EXCEPT !.n = n, !.target = -1, !.val = -1], w_out))
    /\ UNCHANGED <<phase, decVars, encVars, wVars, restVars>>

\* one call of read_chunk (a skipped chunk: up to the recursive call), and
\* then the rest of read unless decode() has to run first
RChunk ==
    LET st == RCur
        stream == w_out
        body == r_off + 4
        chunk_type == At(stream, r_off)
        chunk_len == LeVal(stream, r_off + 1, 3)
        st1 == [st EXCEPT !.type = chunk_type]
    IN  /\ phase \in ReaderPhases
        /\ r_pc = "chunk"
        /\ UNCHANGED <<phase, encVars, wVars, restVars>>
        /\ IF Len(stream) - r_off < 4
           THEN /\ RSet(read_copy([st EXCEPT !.eof = TRUE, !.off = Len(stream)]))
                /\ UNCHANGED decVars
           ELSE IF chunk_type = CHUNK_TYPE_COMPRESSED_DATA
           THEN IF chunk_len < CHECKSUM_SIZE
                THEN RSet(read_err(st1, "err_small", body)) /\ UNCHANGED decVars
                ELSE IF Len(stream) - body < chunk_len
                THEN RSet(read_err(st1, "err_eof", Len(stream))) /\ UNCHANGED decVars
                ELSE /\ RSet([st1 EXCEPT !.off = body + chunk_len, !.pc = "decode",
                                         !.crc = Slice(stream, body, body + CHECKSUM_SIZE)])
                     /\ DecodeBegin(Slice(stream, body + CHECKSUM_SIZE, body + chunk_len))
           ELSE IF chunk_type = CHUNK_TYPE_UNCOMPRESSED_DATA
           THEN /\ RSet(read_uncompressed_chunk(st1, stream, body, chunk_len))
                /\ UNCHANGED decVars
           ELSE IF is_skippable(chunk_type)
           THEN /\ IF Len(stream) - body < chunk_len
                   THEN RSet(read_err(st1, "err_eof", Len(stream)))
                   ELSE RSet([st1 EXCEPT !.off = body + chunk_len])
                /\ UNCHANGED decVars
           ELSE RSet(read_err(st1, "err_type", body)) /\ UNCHANGED decVars

\* the local variables of decode() go out of scope
DecReset ==
    /\ y' = <<>>
    /\ dec_src' = <<>>
    /\ dec_len' = 0
    /\ dec_dst' = <<>>
    /\ dec_s' = 0
    /\ dec_d' = 0
    /\ dec_offset' = 0
    /\ dec_pc' = "idle"
    /\ dec_ev' = NoEv

\* read_compressed_chunk after decode() returned, and then the rest of read
RVerify ==
    LET st == RCur IN
    /\ phase \in ReaderPhases
    /\ r_pc = "decode"
    /\ dec_pc \in {"ok", "corrupt", "panic"}
    /\ UNCHANGED <<phase, encVars, wVars, restVars>>
    /\ DecReset
    /\ IF dec_pc = "panic" THEN RSet(read_err(st, "panic", r_off))
       ELSE IF dec_pc = "corrupt" THEN RSet(read_err(st, "err_decode", r_off))
       ELSE IF Len(dec_dst) > max_block_size THEN RSet(read_err(st, "err_size", r_off))
       ELSE IF crc_mismatch(crc(dec_dst), r_crc) THEN RSet(read_err(st, "err_crc", r_off))
       ELSE RSet(read_loop([st EXCEPT !.buf = @ \o dec_dst, !.crc = <<>>]))

----------------------------------------------------------------------------
(* Writer, then Reader::new on what it wrote *)

MaxWrites == 2
BugBlock == <<1, 2, 3, 4, 5, 9, 7, 8>> \o <<1, 2, 3, 4, 5, 5, 7, 8>>
                \o <<1, 2, 3, 4, 5, 5, 7, 8>> \o <<1, 2, 3, 4, 5, 5, 7, 8>>
GoodBlock == SubSeq([i \in 1..40 |-> 10 + ((i - 1) % 8)], 1, 40)
WriteArgs == {<<>>, BugBlock, GoodBlock}

\* a fixed pseudo-random byte for position i
LongNoise(i) ==
    LET a == i % 32749
        b == (a * a + (i \div 32749) * 977 + i * 3) % 32749
    IN  ((b * b + i) % 32003) % 256

\* a block of MIN_BLOCK_SIZE bytes
FullBlock == SubSeq([i \in 1..4096 |-> LongNoise(i)], 1, 4096)

\* MIN_BLOCK_SIZE bytes that compress, for the write call after n others: 64
\* pseudo-random bytes over and over, with a byte between them that counts up
RunBlock(n) ==
    SubSeq([i \in 1..4096 |-> IF (i - 1) % 65 = 64 THEN 100 + ((i - 1) \div 65)
                              ELSE LongNoise(1000 * n + ((i - 1) % 65))], 1, 4096)

\* what a write call brings under "block": less than a block, a block, more
BlockArgs(n) == {GoodBlock, RunBlock(n), RunBlock(n) \o GoodBlock}
WriteArgsOf(p, n) == IF p = "block" THEN BlockArgs(n) ELSE WriteArgs
ReadSizes == {1, 64}
ForeignData == <<7, 7, 7>>

InitStream == phase = "stream" /\ DecIdle /\ EncIdle /\ StrIdle

\* Writer::write
WWrite ==
    /\ phase \in WriterPhases
    /\ w_pc = "idle"
    /\ w_calls < MaxWrites
    /\ \E data \in WriteArgsOf(phase, w_calls) :
         LET r == write_fill(w_buf, data) IN
         /\ w_x' = w_x \o data
         /\ w_buf' = r.buf
         /\ w_pending' = r.rest
         /\ IF r.rest # <<>>
            THEN FlushBegin(w_out, w_total_written, r.buf, "write")
            ELSE UNCHANGED <<w_out, w_total_written, w_wrote_header, w_pc, w_ctx, encVars>>
    /\ w_calls' = w_calls + 1
    /\ UNCHANGED <<phase, decVars, w_foreign, w_padding, w_block, w_old, rVars, restVars>>

\* Writer::flush
WFlush ==
    /\ phase \in WriterPhases
    /\ w_pc = "idle"
    /\ IF w_buf = <<>>
       THEN UNCHANGED <<w_out, w_total_written, w_wrote_header, w_pc, w_ctx, encVars>>
       ELSE FlushBegin(w_out, w_total_written, w_buf, "flush")
    /\ UNCHANGED <<phase, decVars, w_buf, w_pending, w_x, w_calls, w_foreign, w_padding, w_block, w_old, rVars,
                   restVars>>

\* Drop for Writer: flush, then apply_padding
WDrop ==
    /\ phase \in WriterPhases
    /\ w_pc = "idle"
    /\ IF w_buf = <<>>
       THEN /\ w_pc' = "closed"
            /\ w_out' = apply_padding(w_out, w_total_written, w_padding).out
            /\ w_total_written' = apply_padding(w_out, w_total_written, w_padding).total
            /\ UNCHANGED <<w_wrote_header, w_ctx, encVars>>
       ELSE FlushBegin(w_out, w_total_written, w_buf, "drop")
    /\ UNCHANGED <<phase, decVars, w_buf, w_pending, w_x, w_calls, w_foreign, w_padding, w_block, w_old, rVars,
                   restVars>>

\* another producer puts a data chunk of its own behind what the Writer
\* wrote: compressed (one literal) or uncompressed, with the right checksum
\* or a wrong one
ForeignChunk ==
    /\ phase = "stream"
    /\ w_pc = "closed"
    /\ r_pc = "idle" /\ r_last = "none"
    /\ ~w_foreign
    /\ \E chunk_type \in {CHUNK_TYPE_COMPRESSED_DATA, CHUNK_TYPE_UNCOMPRESSED_DATA},
          good \in BOOLEAN :
         LET data == IF chunk_type = CHUNK_TYPE_COMPRESSED_DATA
                     THEN encode_varint(Len(ForeignData)) \o emit_literal(ForeignData)
                     ELSE ForeignData
             sum == crc(ForeignData)
             checksum == IF good THEN sum ELSE [sum EXCEPT ![4] = (@ + 1) % 256]
         IN  w_out' = w_out \o <<chunk_type>> \o Le(Len(data) + CHECKSUM_SIZE, 3)
                           \o checksum \o data
    /\ w_foreign' = TRUE
    /\ UNCHANGED <<phase, decVars, encVars, w_buf, w_wrote_header, w_total_written,
                   w_pending, w_pc, w_ctx, w_x, w_calls, w_padding, w_block, w_old, rVars, restVars>>

\* the buf.len() of the read calls
ReadSizesOf(p) == IF p \in {"read", "trunc", "reset"} THEN {64} ELSE IF p = "conc" THEN {8192} ELSE ReadSizes

ReaderRead == \E n \in ReadSizesOf(phase) : RRead(n)

NextStream ==
    \/ WWrite \/ WFlush \/ WDrop \/ WFlushEnd \/ ForeignChunk \/ FastStep
    \/ ReaderRead \/ RChunk \/ RVerify \/ DecStep

SpecStream == InitStream /\ [][NextStream]_vars

\* C6: a closed Writer's stream, read with Reader::new until the end, gives
\* back exactly the bytes written, and no read call fails
C6_StreamRoundTrip ==
    (phase = "stream" /\ w_pc = "closed" /\ ~w_foreign /\ r_last \notin {"none", "ok"})
        => (r_last = "eof" /\ ~r_erred /\ r_ret = w_x)

\* the reader is about to compare the checksum of a compressed chunk that
\* does not match the decoded payload
MismatchCompressed ==
    /\ r_pc = "decode"
    /\ dec_pc = "ok"
    /\ Len(dec_dst) <= max_block_size
    /\ crc(dec_dst) # r_crc

\* the reader stands before a complete uncompressed chunk whose checksum
\* does not match its payload
MismatchUncompressed ==
    LET chunk_len == LeVal(w_out, r_off + 1, 3) IN
    /\ r_pc = "chunk"
    /\ Len(w_out) - r_off >= 4 + CHECKSUM_SIZE
    /\ At(w_out, r_off) = CHUNK_TYPE_UNCOMPRESSED_DATA
    /\ chunk_len >= CHECKSUM_SIZE
    /\ Len(w_out) - r_off >= 4 + chunk_len
    /\ crc(Slice(w_out, r_off + 8, r_off + 4 + chunk_len)) # Slice(w_out, r_off + 4, r_off + 8)

----------------------------------------------------------------------------
(* Writer::new or Writer::with_padding, writes, flushes, resets, drop *)

PadSizes == {2, 3, 16, 1024}

InitWriter == phase = "writer" /\ DecIdle /\ EncIdle /\ StrIdle

\* Writer::with_padding instead of Writer::new
WithPadding ==
    /\ phase = "writer"
    /\ w_pc = "idle" /\ w_calls = 0 /\ w_padding = 0
    /\ \E padding \in PadSizes : w_padding' = padding
    /\ UNCHANGED <<phase, decVars, encVars, w_out, w_buf, w_wrote_header, w_total_written,
                   w_pending, w_pc, w_ctx, w_x, w_calls, w_foreign, w_block, w_old, rVars,
                   restVars>>

\* Writer::reset: the Writer goes on with a new, empty underlying writer and
\* hands the old one back.  Under "writer" a reset counts as one of the
\* MaxWrites calls; under "reset" there is one reset and the calls are
\* counted per underlying writer.
WReset ==
    /\ phase \in {"writer", "reset"}
    /\ w_pc = "idle"
    /\ IF phase = "writer"
       THEN w_calls < MaxWrites /\ w_calls' = w_calls + 1
       ELSE w_old = <<>> /\ w_calls' = 0
    /\ w_buf' = <<>>
    /\ w_wrote_header' = FALSE
    /\ w_total_written' = 0
    /\ w_out' = <<>>
    /\ w_old' = Append(w_old, w_out)
    /\ w_x' = <<>>
    /\ UNCHANGED <<phase, decVars, encVars, w_pending, w_pc, w_ctx, w_foreign, w_padding,
                   w_block, rVars, restVars>>

NextWriter == WithPadding \/ WWrite \/ WFlush \/ WReset \/ WDrop \/ WFlushEnd \/ FastStep

SpecWriter == InitWriter /\ [][NextWriter]_vars

\* the chunks of a stream: type, declared length and position of each header
RECURSIVE chunk_list(_, _)
chunk_list(stream, off) ==
    IF Len(stream) - off < 4 THEN <<>>
    ELSE <<[type |-> At(stream, off), len |-> LeVal(stream, off + 1, 3), off |-> off]>>
            \o chunk_list(stream, off + 4 + LeVal(stream, off + 1, 3))

\* C13: with padding P > 1, total_written is always the number of bytes the
\* sink received; the stream holds at most one 0xfe chunk, written by close
\* as the last chunk, behind a data chunk; after close the sink holds a
\* multiple of P bytes
C13_Padding ==
    (phase = "writer" /\ w_padding > 1) =>
        LET cs == chunk_list(w_out, 0)
            pads == {i \in 1..Len(cs) : cs[i].type = CHUNK_TYPE_PADDING}
        IN  /\ w_total_written = Len(w_out)
            /\ Cardinality(pads) <= 1
            /\ pads # {} =>
                  /\ w_pc = "closed"
                  /\ pads = {Len(cs)}
                  /\ Len(cs) >= 3
                  /\ cs[Len(cs) - 1].type = CHUNK_TYPE_COMPRESSED_DATA
                  /\ cs[Len(cs)].off + 4 + cs[Len(cs)].len = Len(w_out)
            /\ w_pc = "closed" => Len(w_out) % w_padding = 0
C13_Witness ==
    LET cs == chunk_list(w_out, 0) IN
    /\ phase = "writer"
    /\ w_pc = "closed"
    /\ w_padding = 3
    /\ Len(cs) = 4
    /\ cs[4].type = CHUNK_TYPE_PADDING
    /\ cs[4].len = 0

\* the magic chunk is the first thing in a non-empty output and no later
\* chunk is a stream identifier; nothing is in the output while no data was
\* written
HeaderShape ==
    LET cs == chunk_list(w_out, 0) IN
    /\ w_wrote_header <=> w_out # <<>>
    /\ w_x = <<>> => w_out = <<>>
    /\ w_out # <<>> =>
          /\ Len(w_out) >= Len(MAGIC_CHUNK)
          /\ SubSeq(w_out, 1, Len(MAGIC_CHUNK)) = MAGIC_CHUNK
          /\ \A i \in 2..Len(cs) : cs[i].type # CHUNK_TYPE_STREAM_IDENTIFIER

\* C16: per stream of a Writer the magic chunk is written once, first, and
\* only by the flush of the first non-empty block; without data the output
\* stays empty
C16_HeaderDiscipline ==
    [][phase = "writer" =>
          /\ HeaderShape'
          /\ (w_wrote_header' /\ ~w_wrote_header) =>
                /\ w_out = <<>>
                /\ w_out' = MAGIC_CHUNK
                /\ w_pc' = "flush"
                /\ w_buf' # <<>>
                /\ enc_src' = w_buf']_vars
C16_Witness ==
    /\ phase = "writer"
    /\ w_pc = "closed"
    /\ w_calls = MaxWrites
    /\ Len(chunk_list(w_out, 0)) = 3
    /\ w_padding = 0
----------------------------------------------------------------------------
(* Reader::new or Reader::with_ignore_stream_id over a source made of chunks *)

MaxChunks == 3

\* the chunks a source is made of: the two stream identifiers, skippable
\* chunks, chunks of unknown type, and data chunks that are good, carry a
\* wrong checksum, or carry a block decode() rejects
SkipItems == {"skip80", "skip99", "skipfd", "skipfe"}
UnknownItems == {"unk02", "unk7f"}
GoodItems == {"comp", "raw"}
BadItems == {"comp_badcrc", "comp_baddata", "raw_badcrc"}
ReadItems == {"s2", "snappy"} \cup SkipItems \cup UnknownItems \cup GoodItems \cup BadItems

\* the chunk type byte of an item
item_type(name) ==
    CASE name \in {"s2", "snappy"} -> CHUNK_TYPE_STREAM_IDENTIFIER
      [] name = "skip80" -> 128
      [] name = "skip99" -> CHUNK_TYPE_INDEX
      [] name = "skipfd" -> 253
      [] name = "skipfe" -> CHUNK_TYPE_PADDING
      [] name = "unk02" -> 2
      [] name = "unk7f" -> 127
      [] name \in {"comp", "comp_badcrc", "comp_baddata"} -> CHUNK_TYPE_COMPRESSED_DATA
      [] OTHER -> CHUNK_TYPE_UNCOMPRESSED_DATA

\* the uncompressed bytes of the data chunk that is the k-th item, and the
\* payload of any other k-th item
item_data(k) == <<10 * k + 1, 10 * k + 2, 10 * k + 3>>
item_payload(k) == <<200 + k, 201 + k, 202 + k, 203 + k, 204 + k, 205 + k>>

\* the bytes of the k-th item
item_bytes(name, k) ==
    LET data == item_data(k)
        sum == crc(data)
        checksum == IF name \in BadItems /\ name # "comp_baddata"
                    THEN [sum EXCEPT ![4] = (@ + 1) % 256] ELSE sum
        block == IF name = "comp_baddata"
                 THEN encode_varint(Len(data)) \o <<TAG_COPY1, 0>>
                 ELSE encode_varint(Len(data)) \o emit_literal(data)
    IN  IF name = "s2" THEN MAGIC_CHUNK
        ELSE IF name = "snappy" THEN MAGIC_CHUNK_SNAPPY
        ELSE IF name \in SkipItems \cup UnknownItems
        THEN <<item_type(name)>> \o Le(Len(item_payload(k)), 3) \o item_payload(k)
        ELSE IF item_type(name) = CHUNK_TYPE_COMPRESSED_DATA
        THEN chunk_bytes(block, checksum)
        ELSE <<CHUNK_TYPE_UNCOMPRESSED_DATA>> \o Le(Len(data) + CHECKSUM_SIZE, 3)
                \o checksum \o data

\* the uncompressed content of a source of good chunks
RECURSIVE source_content(_, _)
source_content(items, k) ==
    IF k > Len(items) THEN <<>>
    ELSE (IF items[k] \in GoodItems THEN item_data(k) ELSE <<>>)
            \o source_content(items, k + 1)

InitRead == phase = "read" /\ DecIdle /\ EncIdle /\ StrIdle

\* a producer appends a chunk to the source before the Reader's first call
FeedChunk ==
    /\ phase \in {"read", "seek"}
    /\ r_pc = "idle" /\ r_last = "none"
    /\ Len(s_items) < MaxChunks
    /\ \E name \in (IF phase = "read" THEN ReadItems
                    ELSE IF s_items = <<>> THEN {"s2"}
                    ELSE GoodItems \cup {"skipfe"}) :
          /\ s_items' = Append(s_items, name)
          /\ w_out' = w_out \o item_bytes(name, Len(s_items) + 1)
    /\ UNCHANGED <<phase, decVars, encVars, w_buf, w_wrote_header, w_total_written,
                   w_pending, w_pc, w_ctx, w_x, w_calls, w_foreign, w_padding, w_block, w_old, rVars,
                   cwVars, ixVars, fnVars>>

\* Reader::with_ignore_stream_id instead of Reader::new
RWithIgnore ==
    /\ phase \in {"read", "seek"}
    /\ r_pc = "idle" /\ r_last = "none" /\ ~r_ignore
    /\ r_ignore' = TRUE
    /\ r_read_header' = TRUE
    /\ UNCHANGED <<phase, decVars, encVars, wVars, restVars, r_off, r_buf, r_pos, r_eof,
                   r_offset, r_pc, r_n, r_type, r_crc, r_last, r_erred, r_ret, r_target,
                   r_to_skip, r_val>>

NextRead == FeedChunk \/ RWithIgnore \/ ReaderRead \/ RChunk \/ RVerify \/ DecStep

SpecRead == InitRead /\ [][NextRead]_vars

\* the errors of read that report corruption, and all results that are errors
CorruptKinds == {"err_crc", "err_decode", "err_type", "err_magic"}
ErrKinds == CorruptKinds \cup {"err_small", "err_size", "err_eof", "panic"}

\* C12: the read call that follows a read call that returned a corruption
\* error returns an error too and delivers nothing
C12_NoResync ==
    [][(phase = "read" /\ r_last \in CorruptKinds /\ r_pc' = "idle")
          => (r_last' \in ErrKinds /\ r_ret' = r_ret)]_vars

\* the chunk the reader stands before is complete
ChunkComplete == Len(w_out) - (r_off + 4) >= LeVal(w_out, r_off + 1, 3)

\* C14: read_chunk before a complete chunk: types 0x00 and 0x01 are decoded
\* as data (the block goes to decode(), the raw payload to the buffer, and a
\* payload that passes its checksum is what read delivers); types 0x99, 0xfe,
\* 0xff and 0x80..0xfd are passed over by exactly their declared length and
\* nothing of them is delivered; types 0x02..0x7f make read return the error
\* for an unknown chunk type
C14_ChunkDispatch ==
    [][(phase = "read" /\ Len(w_out) - r_off >= 4 /\ (r_pc = "chunk" \/ r_pc = "decode")) =>
          LET chunk_type == At(w_out, r_off)
              chunk_len == LeVal(w_out, r_off + 1, 3)
              body == r_off + 4
              sum == Slice(w_out, body, body + CHECKSUM_SIZE)
              data == Slice(w_out, body + CHECKSUM_SIZE, body + chunk_len)
              delivered(bytes) ==
                  /\ r_buf' = bytes
                  /\ r_ret' = r_ret \o SubSeq(bytes, 1, Min(r_n, Len(bytes)))
                  /\ r_pc' = IF bytes = <<>> THEN "chunk" ELSE "idle"
          IN  /\ (r_pc = "chunk" /\ chunk_type >= 2 /\ chunk_type <= 127) =>
                    (r_pc' = "idle" /\ r_last' = "err_type" /\ r_ret' = r_ret /\ r_buf' = <<>>)
              /\ (/\ r_pc = "chunk" /\ ChunkComplete
                  /\ \/ chunk_type \in {CHUNK_TYPE_INDEX, CHUNK_TYPE_PADDING,
                                        CHUNK_TYPE_STREAM_IDENTIFIER}
                     \/ (chunk_type >= 128 /\ chunk_type <= 253)) =>
                    (/\ r_off' = body + chunk_len
                     /\ r_pc' = "chunk" /\ r_last' = r_last
                     /\ r_ret' = r_ret /\ r_buf' = <<>>)
              /\ (/\ r_pc = "chunk" /\ ChunkComplete /\ chunk_len >= CHECKSUM_SIZE
                  /\ chunk_type = CHUNK_TYPE_COMPRESSED_DATA) =>
                    (/\ r_off' = body + chunk_len
                     /\ r_pc' = "decode" /\ y' = data /\ r_crc' = sum
                     /\ r_ret' = r_ret /\ r_buf' = <<>>)
              /\ (/\ r_pc = "chunk" /\ ChunkComplete /\ chunk_len >= CHECKSUM_SIZE
                  /\ chunk_type = CHUNK_TYPE_UNCOMPRESSED_DATA) =>
                    (/\ r_off' = body + chunk_len
                     /\ IF crc(data) = sum THEN delivered(data)
                        ELSE r_last' = "err_crc" /\ r_ret' = r_ret /\ r_buf' = <<>>)
              /\ (r_pc = "decode" /\ r_pc' # "decode" /\ dec_pc = "ok"
                      /\ crc(dec_dst) = r_crc) => delivered(dec_dst)]_vars
C14_Witness ==
    /\ phase = "read"
    /\ s_items = <<"s2", "snappy", "comp">>
    /\ r_last = "eof"
    /\ ~r_erred
    /\ r_ret = item_data(3)

\* C15: without with_ignore_stream_id nothing is delivered unless the source
\* starts with one of the two magic chunks, and the first read fails then;
\* with it a source that starts with a data chunk is read
C15_StreamIdFirst ==
    LET magic == Slice(w_out, 0, Len(MAGIC_CHUNK))
        has_magic == Len(w_out) >= Len(MAGIC_CHUNK)
                        /\ (magic = MAGIC_CHUNK \/ magic = MAGIC_CHUNK_SNAPPY)
    IN  phase = "read" =>
          /\ (~r_ignore /\ ~has_magic) => r_ret = <<>>
          /\ (~r_ignore /\ ~has_magic /\ r_last # "none") => r_erred
          /\ (r_ignore /\ s_items \in {<<"comp">>, <<"raw">>} /\ r_last \notin {"none", "ok"})
                => (r_last = "eof" /\ ~r_erred /\ r_ret = item_data(1))
----------------------------------------------------------------------------
(* Reader::seek over a source of good chunks *)

InitSeek == phase = "seek" /\ DecIdle /\ EncIdle /\ StrIdle

\* seek returns Ok(target_pos): what the caller was given since the last
\* seek starts anew
seek_ok(st, target_pos) ==
    [st EXCEPT !.pc = "idle", !.last = "seek_ok", !.val = target_pos, !.ret = <<>>,
               !.target = target_pos, !.to_skip = 0]

\* seek from target_pos on: inside the buffer, to the beginning, or by
\* reading forward, after a rewind if the target lies behind
seek_no_rewind(st, stream, target_pos) ==
    LET buffer_start_offset == st.offset - st.pos
        buffer_end_offset == buffer_start_offset + Len(st.buf)
        rewound == [st EXCEPT !.off = 0, !.buf = <<>>, !.pos = 0, !.read_header = FALSE,
                              !.eof = FALSE, !.offset = 0]
        to_skip == target_pos - st.offset
    IN  IF target_pos < 0
        THEN [st EXCEPT !.last = "err_input", !.target = target_pos, !.val = -1]
        ELSE IF target_pos >= buffer_start_offset /\ target_pos < buffer_end_offset
        THEN seek_ok([st EXCEPT !.pos = target_pos - buffer_start_offset,
                                !.offset = target_pos], target_pos)
        ELSE IF target_pos = 0 THEN seek_ok(rewound, 0)
        ELSE IF to_skip <= 0 THEN seek_ok(st, target_pos)
        ELSE read_begin([st EXCEPT !.target = target_pos, !.to_skip = to_skip,
                                   !.n = Min(to_skip, 8192), !.val = -1], stream)
seek_from(st, stream, target_pos) ==
    LET buffer_start_offset == st.offset - st.pos
        buffer_end_offset == buffer_start_offset + Len(st.buf)
        rewound == [st EXCEPT !.off = 0, !.buf = <<>>, !.pos = 0, !.read_header = FALSE,
                              !.eof = FALSE, !.offset = 0]
        from == IF target_pos < st.offset THEN rewound ELSE st
        to_skip == target_pos - from.offset
    IN  IF target_pos < 0
        THEN [st EXCEPT !.last = "err_input", !.target = target_pos, !.val = -1]
        ELSE IF target_pos >= buffer_start_offset /\ target_pos < buffer_end_offset
        THEN seek_ok([st EXCEPT !.pos = target_pos - buffer_start_offset,
                                !.offset = target_pos], target_pos)
        ELSE IF target_pos = 0 THEN seek_ok(rewound, 0)
        ELSE IF to_skip = 0 THEN seek_ok(from, target_pos)
        ELSE read_begin([from EXCEPT !.target = target_pos, !.to_skip = to_skip,
                                     !.n = Min(to_skip, 8192), !.val = -1], stream)

\* the targets a caller asks for: from before the start to behind the end
SeekRange == (0 - 1 - Len(source_content(s_items, 1)))..(Len(source_content(s_items, 1)) + 1)

\* Reader::seek(SeekFrom::Start(offset)); offset is a u64
RSeekStart ==
    /\ phase = "seek"
    /\ r_pc = "idle"
    /\ \E offset \in SeekRange : offset >= 0 /\ RSet(seek_from(RCur, w_out, offset))
    /\ UNCHANGED <<phase, decVars, encVars, wVars, restVars>>

\* Reader::seek(SeekFrom::Current(offset))
RSeekCurrent ==
    /\ phase = "seek"
    /\ r_pc = "idle"
    /\ \E offset \in SeekRange : RSet(seek_from(RCur, w_out, r_offset + offset))
    /\ UNCHANGED <<phase, decVars, encVars, wVars, restVars>>

\* Reader::seek(SeekFrom::End(_))
RSeekEnd ==
    /\ phase = "seek"
    /\ r_pc = "idle"
    /\ RSet([RCur EXCEPT !.last = "err_unsupported", !.target = -1, !.val = -1])
    /\ UNCHANGED <<phase, decVars, encVars, wVars, restVars>>

NextSeek ==
    \/ FeedChunk \/ RWithIgnore \/ ReaderRead \/ RSeekStart \/ RSeekCurrent \/ RSeekEnd
    \/ RChunk \/ RVerify \/ DecStep

SpecSeek == InitSeek /\ [][NextSeek]_vars

\* the fields of the Reader that say where it stands
SeekPosition == <<r_off, r_buf, r_pos, r_read_header, r_eof, r_offset>>

\* C17: over a source of good chunks with content x, as long as no call
\* failed for corruption or EOF: a seek to a target p in 0..|x| returns Ok(p)
\* and leaves current_uncompressed_offset = p, what the reads deliver from
\* there on is x[p..] up to the end of x, a target behind the end is the only
\* one that ends in EOF, and seek(End) and a negative target fail without
\* moving the Reader
C17_Seek ==
    [][phase = "seek" =>
          LET x == source_content(s_items, 1) IN
          /\ (~r_erred' /\ r_pc' = "idle") =>
                /\ 0 <= r_offset' - Len(r_ret') /\ r_offset' <= Len(x)
                /\ r_ret' = Slice(x, r_offset' - Len(r_ret'), r_offset')
                /\ r_last' = "eof" => r_offset' = Len(x)
                /\ r_last' = "ok" => r_ret' # <<>>
                /\ r_last' = "seek_ok" =>
                      /\ r_target' >= 0 /\ r_target' <= Len(x)
                      /\ r_val' = r_target' /\ r_offset' = r_target' /\ r_ret' = <<>>
                /\ r_last' = "err_input" => r_target' < 0
          /\ (r_pc' = "idle" /\ r_last' = "err_seek_eof") => r_target' > Len(x)
          /\ (r_pc = "idle" /\ r_pc' = "idle" /\ r_last' \in {"err_input", "err_unsupported"})
                => UNCHANGED SeekPosition]_vars
C17_Witness ==
    /\ phase = "seek"
    /\ s_items = <<"s2", "comp", "raw">>
    /\ r_offset = 6
    /\ r_last = "eof"
    /\ r_ret = Slice(source_content(s_items, 1), 1, 6)
    /\ ~r_erred
----------------------------------------------------------------------------
(* encode() from call to return, on short inputs and on one long input *)

\* the first 1480 + 65536 bytes of the long input: 40 units of four zero
\* bytes and 33 noise bytes, then 64 KiB of noise
LongHead(i) == IF i < 1480 /\ i % 37 < 4 THEN 0 ELSE LongNoise(i)

\* the long input: behind the head, 1280 groups of one noise byte and four
\* bytes that repeat four bytes of a unit of the head (a 4-byte match more
\* than 64 KiB back), and nine noise bytes at the end
LongSrc ==
    LET byte(i) ==
            LET j == (i - 67016) \div 5
                k == (i - 67016) % 5
            IN  IF i < 67016 THEN LongHead(i)
                ELSE IF j >= 1280 \/ k = 0 THEN LongNoise(i)
                ELSE LongHead((j \div 32) * 37 + 5 + (j % 32) + k - 1)
    IN  SubSeq([n \in 1..73425 |-> byte(n - 1)], 1, 73425)

InitBig == phase = "big" /\ DecIdle /\ EncIdle /\ StrIdle

\* encode() from its call to its return, on the bytes the caller assembled
\* or on the long input; every iteration of the loops of encode_block moves
\* s forward or leaves its loop, so 2 * |src| + 2 iterations are enough
EncodeRun ==
    /\ phase = "big"
    /\ enc_pc = "idle"
    /\ \E x \in {enc_src} \cup (IF enc_src = <<>> THEN {LongSrc} ELSE {}) :
          FastSet(fast_run(encode_start(x, "search"), 2 * Len(x) + 2))
    /\ UNCHANGED <<phase, decVars, betterLoc, strVars>>

NextBig == EncInput \/ EncodeRun

SpecBig == InitBig /\ [][NextBig]_vars

\* C10: while encode() runs, the varint header plus the bytes emitted so far
\* stay within max_encoded_len(|x|), no emit panics, and the block returned
\* is no longer than max_encoded_len(|x|)
C10_EncoderOutputBound ==
    phase = "big" =>
        /\ enc_pc # "panic"
        /\ enc_pc # "idle" =>
              Len(encode_varint(Len(enc_src))) + Len(enc_dst) <= max_encoded_len(Len(enc_src))
        /\ enc_pc = "done" => Len(enc_out) <= max_encoded_len(Len(enc_src))
----------------------------------------------------------------------------
(* concurrent.rs: ConcurrentWriter, then Reader::new on what it wrote *)

\* ConcurrentWriter::with_block_size(writer, MIN_BLOCK_SIZE, concurrency)
cw_block_size == with_block_size(MIN_BLOCK_SIZE)

\* encode() from its call to its return
encode(src) == fast_run(encode_start(src, "search"), 2 * Len(src) + 2)

\* ConcurrentWriter::write: the loop up to its end or its next call of
\* flush_blocks; rest is remaining
RECURSIVE cw_fill(_, _, _, _)
cw_fill(buffers, remaining, concurrency, cw_bs) ==
    LET bufs == IF buffers = <<>> THEN << <<>> >> ELSE buffers
        current == bufs[Len(bufs)]
        available == Max(cw_bs - Len(current), 0)
        to_write == Min(available, Len(remaining))
        filled == [bufs EXCEPT ![Len(bufs)] = current \o SubSeq(remaining, 1, to_write)]
        rest == SubSeq(remaining, to_write + 1, Len(remaining))
    IN  IF remaining = <<>> THEN [buffers |-> buffers, rest |-> <<>>, flush |-> FALSE]
        ELSE IF available = 0 THEN cw_fill(Append(bufs, <<>>), remaining, concurrency, cw_bs)
        ELSE IF Len(filled) >= concurrency
        THEN [buffers |-> filled, rest |-> rest, flush |-> TRUE]
        ELSE cw_fill(filled, rest, concurrency, cw_bs)

\* the closure a worker runs on one buffer: (compressed, checksum), or the
\* panic of encode()
compress_block(buf) ==
    LET compressed == encode(buf) IN
    IF compressed.pc = "panic" THEN <<"panic">> ELSE <<compressed.out, crc(buf)>>

\* collect() puts the result of the i-th buffer into the i-th slot
collect_slot(results, i, res) == [results EXCEPT ![i] = res]

\* for (compressed, checksum) in compressed_blocks: the bytes written up to
\* the end of the loop or its return with "compressed block too large"
RECURSIVE cw_chunks(_, _)
cw_chunks(results, i) ==
    IF i > Len(results) THEN [out |-> <<>>, ok |-> TRUE]
    ELSE IF Len(results[i][1]) + CHECKSUM_SIZE > MAX_CHUNK_SIZE
    THEN [out |-> <<>>, ok |-> FALSE]
    ELSE [out |-> chunk_bytes(results[i][1], results[i][2]) \o cw_chunks(results, i + 1).out,
          ok |-> cw_chunks(results, i + 1).ok]

\* flush_blocks with buffers, up to the start of the workers
CWFlushBegin(buffers, ctx) ==
    /\ w_out' = write_header(w_out, 0, w_wrote_header).out
    /\ w_wrote_header' = TRUE
    /\ cw_results' = SubSeq([i \in 1..Len(buffers) |-> <<>>], 1, Len(buffers))
    /\ cw_pc' = "flush"
    /\ cw_ctx' = ctx

\* the two short blocks; one write call may bring the long block
CWArgs == {BugBlock, GoodBlock}

InitConc == phase = "conc" /\ DecIdle /\ EncIdle /\ StrIdle

\* instead of with_block_size(writer, MIN_BLOCK_SIZE, 1): with_block_size
\* with another concurrency, or ConcurrentWriter::new(writer, 1)
CWNew ==
    /\ phase = "conc"
    /\ cw_pc = "idle" /\ w_calls = 0 /\ cw_concurrency = 1 /\ cw_block = cw_block_size
    /\ \/ \E concurrency \in {0, 2, 3} :
             /\ cw_concurrency' = Max(concurrency, 1)
             /\ cw_block' = cw_block_size
       \/ /\ cw_concurrency' = 1
          /\ cw_block' = with_block_size(DEFAULT_BLOCK_SIZE)
    /\ UNCHANGED <<phase, decVars, encVars, wVars, rVars, s_items, ixVars, fnVars, cw_buffers,
                   cw_results, cw_pc, cw_ctx, cw_pending>>

\* ConcurrentWriter::write
CWWrite ==
    /\ phase = "conc"
    /\ cw_pc = "idle"
    /\ w_calls < MaxWrites
    /\ \E data \in CWArgs \cup (IF w_calls = 0 THEN {FullBlock} ELSE {})
                       \cup (IF w_calls = 0 /\ cw_block >= Len(LongSrc) THEN {LongSrc} ELSE {}) :
         LET r == cw_fill(cw_buffers, data, cw_concurrency, cw_block) IN
         /\ w_x' = w_x \o data
         /\ cw_buffers' = r.buffers
         /\ cw_pending' = r.rest
         /\ IF r.flush THEN CWFlushBegin(r.buffers, "write")
            ELSE UNCHANGED <<w_out, w_wrote_header, cw_results, cw_pc, cw_ctx>>
    /\ w_calls' = w_calls + 1
    /\ UNCHANGED <<phase, decVars, encVars, rVars, s_items, ixVars, fnVars, w_buf, w_total_written,
                   w_pending, w_pc, w_ctx, w_foreign, w_padding, w_block, w_old, cw_concurrency, cw_block>>

\* ConcurrentWriter::flush
CWFlush ==
    /\ phase = "conc"
    /\ cw_pc = "idle"
    /\ cw_buffers # <<>>
    /\ CWFlushBegin(cw_buffers, "flush")
    /\ UNCHANGED <<phase, decVars, encVars, rVars, s_items, ixVars, fnVars, w_buf, w_total_written,
                   w_pending, w_pc, w_ctx, w_x, w_calls, w_foreign, w_padding, w_block, w_old,
                   cw_buffers, cw_pending, cw_concurrency, cw_block>>

\* Drop for ConcurrentWriter
CWDrop ==
    /\ phase = "conc"
    /\ cw_pc = "idle"
    /\ IF cw_buffers = <<>>
       THEN cw_pc' = "closed" /\ UNCHANGED <<w_out, w_wrote_header, cw_results, cw_ctx>>
       ELSE CWFlushBegin(cw_buffers, "drop")
    /\ UNCHANGED <<phase, decVars, encVars, rVars, s_items, ixVars, fnVars, w_buf, w_total_written,
                   w_pending, w_pc, w_ctx, w_x, w_calls, w_foreign, w_padding, w_block, w_old,
                   cw_buffers, cw_pending, cw_concurrency, cw_block>>

\* a worker of the pool takes a buffer nobody has taken and finishes it
CWWorker ==
    /\ phase = "conc"
    /\ cw_pc = "flush"
    /\ \E i \in 1..Len(cw_buffers) :
          /\ cw_results[i] = <<>>
          /\ cw_results' = collect_slot(cw_results, i, compress_block(cw_buffers[i]))
    /\ UNCHANGED <<phase, decVars, encVars, wVars, rVars, s_items, ixVars, fnVars, cw_buffers,
                   cw_pc, cw_ctx, cw_pending, cw_concurrency, cw_block>>

\* flush_blocks after collect() returned, and then the rest of its caller
CWCollect ==
    LET written == cw_chunks(cw_results, 1)
        r == cw_fill(<<>>, cw_pending, cw_concurrency, cw_block)
    IN  /\ phase = "conc"
        /\ cw_pc = "flush"
        /\ \A i \in 1..Len(cw_results) : cw_results[i] # <<>>
        /\ UNCHANGED <<phase, decVars, encVars, rVars, s_items, ixVars, fnVars, w_buf,
                       w_total_written, w_pending, w_pc, w_ctx, w_x, w_calls, w_foreign,
                       w_padding, w_block, w_old, w_wrote_header, cw_concurrency,
                       cw_block>>
        /\ IF \E i \in 1..Len(cw_results) : cw_results[i] = <<"panic">>
           THEN /\ cw_pc' = "panic"
                /\ UNCHANGED <<w_out, cw_buffers, cw_results, cw_ctx, cw_pending>>
           ELSE IF ~written.ok
           THEN /\ w_out' = w_out \o written.out
                /\ cw_pc' = IF cw_ctx = "drop" THEN "closed" ELSE "idle"
                /\ cw_ctx' = "none"
                /\ cw_pending' = <<>>
                /\ cw_results' = <<>>
                /\ UNCHANGED cw_buffers
           ELSE IF cw_ctx = "write" /\ r.flush
           THEN /\ w_out' = w_out \o written.out
                /\ cw_buffers' = r.buffers
                /\ cw_pending' = r.rest
                /\ cw_results' = SubSeq([i \in 1..Len(r.buffers) |-> <<>>], 1, Len(r.buffers))
                /\ UNCHANGED <<cw_pc, cw_ctx>>
           ELSE /\ w_out' = w_out \o written.out
                /\ cw_buffers' = IF cw_ctx = "write" THEN r.buffers ELSE <<>>
                /\ cw_pending' = <<>>
                /\ cw_results' = <<>>
                /\ cw_pc' = IF cw_ctx = "drop" THEN "closed" ELSE "idle"
                /\ cw_ctx' = "none"

NextConc ==
    \/ CWNew \/ CWWrite \/ CWFlush \/ CWDrop \/ CWWorker \/ CWCollect
    \/ ReaderRead \/ RChunk \/ RVerify \/ DecStep

SpecConc == InitConc /\ [][NextConc]_vars

\* C11: whatever the number of workers and the order in which they finish,
\* the stream a closed ConcurrentWriter produced from at least one byte, read
\* with Reader::new until the end, gives back the written bytes in the order
\* of the write calls, and no read call fails
C11_ConcurrentOrder ==
    (phase = "conc" /\ cw_pc = "closed" /\ w_x # <<>> /\ r_last \notin {"none", "ok"})
        => (r_last = "eof" /\ ~r_erred /\ r_ret = w_x)

\* the bytes held in buffers, in order
RECURSIVE buffered(_, _)
buffered(buffers, i) ==
    IF i > Len(buffers) THEN <<>> ELSE buffers[i] \o buffered(buffers, i + 1)

\* the chunks cs[i..] of stream are compressed data chunks that carry, one
\* after the other, the blocks of x from start to the end of x: each chunk
\* holds the masked CRC of its block and a block header with its length
RECURSIVE blocks_cover(_, _, _, _, _)
blocks_cover(stream, cs, i, x, start) ==
    LET block_at == cs[i].off + 4 + CHECKSUM_SIZE
        dlen == decode_varint(Slice(stream, block_at, cs[i].off + 4 + cs[i].len)).value
    IN  IF i > Len(cs) THEN start = Len(x)
        ELSE /\ cs[i].type = CHUNK_TYPE_COMPRESSED_DATA
             /\ dlen >= 1
             /\ start + dlen <= Len(x)
             /\ Slice(stream, cs[i].off + 4, block_at) = crc(Slice(x, start, start + dlen))
             /\ blocks_cover(stream, cs, i + 1, x, start + dlen)

\* stream is the magic chunk and data chunks that hold x once, or nothing
\* for an empty x
emitted_once(stream, x) ==
    IF x = <<>> THEN stream = <<>>
    ELSE /\ Len(stream) >= Len(MAGIC_CHUNK)
         /\ SubSeq(stream, 1, Len(MAGIC_CHUNK)) = MAGIC_CHUNK
         /\ Len(stream) = LET cs == chunk_list(stream, 0) IN
                              cs[Len(cs)].off + 4 + cs[Len(cs)].len
         /\ blocks_cover(stream, chunk_list(stream, 0), 2, x, 0)

\* C22: no write, flush or drop of a ConcurrentWriter fails; when one of
\* them returns, every byte accepted so far is either in exactly one data
\* chunk of the sink or still in the buffers, in write order, and after a
\* flush or the drop no byte is left in the buffers
C22_ConcurrentComplete ==
    [][phase = "conc" =>
          LET held == buffered(cw_buffers', 1) IN
          /\ cw_pc' # "panic"
          /\ \A i \in 1..Len(cw_results') : cw_results'[i] # <<"panic">>
          /\ (cw_pc' \in {"idle", "closed"} /\ <<cwVars, w_out, w_x>>' # <<cwVars, w_out, w_x>>) =>
                /\ cw_pending' = <<>>
                /\ Len(held) <= Len(w_x')
                /\ held = Slice(w_x', Len(w_x') - Len(held), Len(w_x'))
                /\ emitted_once(w_out', Slice(w_x', 0, Len(w_x') - Len(held)))
          /\ (cw_pc' \in {"idle", "closed"}
                /\ ((cw_pc = "flush" /\ cw_ctx \in {"flush", "drop"}) \/ cw_pc' = "closed")) =>
                cw_buffers' = <<>>]_vars
----------------------------------------------------------------------------
(* index.rs: Index::add, find, reduce, append_to and load *)

S2_INDEX_HEADER == <<115, 50, 105, 100, 120, 0>>
S2_INDEX_TRAILER == <<0, 120, 100, 105, 50, 115>>
MAX_INDEX_ENTRIES == 65536
MIN_INDEX_DIST == 1048576

IndexEntry(c, u) == [compressed_offset |-> c, uncompressed_offset |-> u]

\* Index::reset
index_reset(index, max_block) ==
    [total_uncompressed |-> -1, total_compressed |-> -1, info |-> <<>>,
     est_block_uncomp |-> max_block]

\* Index::add: the index after the call and Ok or Err(Corrupt)
index_add(index, compressed_offset, uncompressed_offset) ==
    LET n == Len(index.info)
        last == index.info[n]
    IN  IF n > 0 /\ last.uncompressed_offset = uncompressed_offset
        THEN [index |-> [index EXCEPT !.info[n].compressed_offset = compressed_offset],
              res |-> "ok"]
        ELSE IF n > 0 /\ last.uncompressed_offset > uncompressed_offset
        THEN [index |-> index, res |-> "corrupt"]
        ELSE IF n > 0 /\ last.compressed_offset > compressed_offset
        THEN [index |-> index, res |-> "corrupt"]
        ELSE IF n > 0 /\ last.uncompressed_offset + MIN_INDEX_DIST > uncompressed_offset
        THEN [index |-> index, res |-> "ok"]
        ELSE [index |-> [index EXCEPT !.info = Append(@, IndexEntry(compressed_offset,
                                                                    uncompressed_offset))],
              res |-> "ok"]

\* slice::binary_search_by_key on the uncompressed offsets: Ok(i) for a hit,
\* Err(i) with the insertion point otherwise, i counted from 0
binary_search_by_key(info, offset) ==
    IF \E i \in 1..Len(info) : info[i].uncompressed_offset = offset
    THEN [found |-> TRUE,
          i |-> (CHOOSE i \in 1..Len(info) : info[i].uncompressed_offset = offset) - 1]
    ELSE [found |-> FALSE,
          i |-> Cardinality({i \in 1..Len(info) : info[i].uncompressed_offset < offset})]

\* Index::find, the branch for more than 200 entries
find_binary(info, offset) ==
    LET r == binary_search_by_key(info, offset)
        idx == IF r.found THEN r.i ELSE IF r.i = 0 THEN 0 ELSE r.i - 1
    IN  <<At(info, idx).compressed_offset, At(info, idx).uncompressed_offset>>

\* Index::find, the loop for at most 200 entries
find_linear(info, offset) ==
    LET stop == {i \in 1..Len(info) : info[i].uncompressed_offset > offset}
        brk == IF stop = {} THEN Len(info) + 1
               ELSE CHOOSE i \in stop : \A j \in stop : i <= j
    IN  IF brk = 1 THEN <<0, 0>>
        ELSE <<info[brk - 1].compressed_offset, info[brk - 1].uncompressed_offset>>

\* Index::find: kind is found, corrupt or invalid; u is the offset from the
\* beginning that was looked up
index_find(index, offset) ==
    LET from_start == IF offset < 0 THEN index.total_uncompressed + offset ELSE offset
        pair == IF Len(index.info) > 200 THEN find_binary(index.info, from_start)
                ELSE find_linear(index.info, from_start)
    IN  IF index.total_uncompressed < 0 THEN [kind |-> "corrupt", c |-> 0, v |-> 0, u |-> 0]
        ELSE IF from_start < 0 THEN [kind |-> "invalid", c |-> 0, v |-> 0, u |-> 0]
        ELSE IF from_start > index.total_uncompressed
        THEN [kind |-> "invalid", c |-> 0, v |-> 0, u |-> 0]
        ELSE [kind |-> "found", c |-> pair[1], v |-> pair[2], u |-> from_start]

\* Index::reduce, the loop that raises remove_n
RECURSIVE reduce_remove_n(_, _, _)
reduce_remove_n(est_block_uncomp, len, remove_n) ==
    IF est_block_uncomp * (remove_n + 1) < MIN_INDEX_DIST /\ len \div (remove_n + 1) > 1000
    THEN reduce_remove_n(est_block_uncomp, len, remove_n + 1)
    ELSE remove_n

\* Index::reduce
reduce(index) ==
    LET len == Len(index.info)
        remove_n == reduce_remove_n(index.est_block_uncomp, len,
                                    (len + 1) \div MAX_INDEX_ENTRIES)
        j == (len + remove_n) \div (remove_n + 1)
    IN  IF len < MAX_INDEX_ENTRIES /\ index.est_block_uncomp >= MIN_INDEX_DIST THEN index
        ELSE [index EXCEPT
                !.info = SubSeq([k \in 1..j |-> index.info[(k - 1) * (remove_n + 1) + 1]], 1, j),
                !.est_block_uncomp = @ + @ * remove_n]

\* index.rs encode_varint, the loop on the zig-zag value
RECURSIVE index_varint_bytes(_)
index_varint_bytes(v) ==
    IF v >= 128 THEN <<(v % 128) + 128>> \o index_varint_bytes(v \div 128) ELSE <<v>>

\* index.rs encode_varint
index_encode_varint(value) ==
    index_varint_bytes(IF value >= 0 THEN 2 * value ELSE (-2 * value) - 1)

\* index.rs decode_varint on data[at..]
RECURSIVE index_decode_loop(_, _, _, _, _)
index_decode_loop(data, at, i, result, mult) ==
    LET byte == At(data, at + i)
        joined == result + (byte % 128) * mult
    IN  IF ~(at + i < Len(data) /\ i < 10) THEN [ok |-> FALSE, value |-> 0, n |-> 0]
        ELSE IF byte < 128
        THEN [ok |-> TRUE,
              value |-> IF joined % 2 = 0 THEN joined \div 2 ELSE (-(joined \div 2)) - 1,
              n |-> i + 1]
        ELSE index_decode_loop(data, at, i + 1, joined, mult * 128)

index_decode_varint(data, at) == index_decode_loop(data, at, 0, 0, 1)

\* i64 division, which rounds towards zero
div_trunc(a, b) == IF a >= 0 THEN a \div b ELSE -((-a) \div b)

\* append_to: has_uncompressed
has_uncompressed_of(index) ==
    IF \E idx \in 1..Len(index.info) :
           IF idx = 1 THEN index.info[idx].uncompressed_offset # 0
           ELSE index.info[idx].uncompressed_offset
                    # index.info[idx - 1].uncompressed_offset + index.est_block_uncomp
    THEN 1 ELSE 0

\* append_to: the uncompressed offsets of entries lo..hi-1, delta encoded
RECURSIVE append_uncompressed(_, _, _)
append_uncompressed(index, lo, hi) ==
    LET mid == lo + ((hi - lo) \div 2)
        entry == index.info[lo]
    IN  IF lo >= hi THEN <<>>
        ELSE IF lo + 1 = hi
        THEN index_encode_varint(
                 IF lo = 1 THEN entry.uncompressed_offset
                 ELSE entry.uncompressed_offset - index.info[lo - 1].uncompressed_offset
                          - index.est_block_uncomp)
        ELSE append_uncompressed(index, lo, mid) \o append_uncompressed(index, mid, hi)

\* append_to: the compressed offsets of entries lo..hi-1, from the state
\* [c_predict, out] before entry lo to the state after entry hi-1
RECURSIVE append_compressed(_, _, _, _)
append_compressed(index, st, lo, hi) ==
    LET mid == lo + ((hi - lo) \div 2)
        entry == index.info[lo]
        off == entry.compressed_offset - index.info[lo - 1].compressed_offset - st.c_predict
        first == append_compressed(index, st, lo, mid)
    IN  IF lo >= hi THEN st
        ELSE IF lo + 1 = hi
        THEN IF lo = 1
             THEN [st EXCEPT !.out = @ \o index_encode_varint(entry.compressed_offset)]
             ELSE [c_predict |-> st.c_predict + div_trunc(off, 2),
                   out |-> st.out \o index_encode_varint(off)]
        ELSE IF Len(first.out) >= Len(st.out) THEN append_compressed(index, first, mid, hi)
        ELSE first

\* x as 4 and as 3 little-endian bytes
le_bytes4(x) == <<x % 256, (x \div 256) % 256, (x \div 65536) % 256, (x \div 16777216) % 256>>
le_bytes3(x) == <<x % 256, (x \div 256) % 256, (x \div 65536) % 256>>

\* Index::append_to on an empty buf, after its call of reduce
append_to(index, uncomp_total, comp_total) ==
    LET n == Len(index.info)
        body == S2_INDEX_HEADER
                \o index_encode_varint(uncomp_total)
                \o index_encode_varint(comp_total)
                \o index_encode_varint(index.est_block_uncomp)
                \o index_encode_varint(n)
                \o <<has_uncompressed_of(index)>>
                \o (IF has_uncompressed_of(index) = 1
                    THEN append_uncompressed(index, 1, n + 1) ELSE <<>>)
                \o append_compressed(index,
                       [c_predict |-> div_trunc(index.est_block_uncomp, 2), out |-> <<>>],
                       1, n + 1).out
        total_size == SKIPPABLE_FRAME_HEADER + Len(body) + 4 + Len(S2_INDEX_TRAILER)
    IN  <<CHUNK_TYPE_INDEX>> \o le_bytes3(total_size - SKIPPABLE_FRAME_HEADER)
        \o body \o le_bytes4(total_size) \o S2_INDEX_TRAILER

\* load: one pass of the loop over the uncompressed offsets, and of the loop
\* over the compressed offsets; st is [ok, at, offs, c_predict]
load_uncompressed_entry(data, est_block_uncomp, st) ==
    LET d == index_decode_varint(data, st.at)
        i == Len(st.offs)
    IN  IF ~st.ok THEN st
        ELSE IF ~d.ok THEN [st EXCEPT !.ok = FALSE]
        ELSE [st EXCEPT !.at = @ + d.n,
                        !.offs = Append(@, IF i = 0 THEN d.value
                                           ELSE st.offs[i] + est_block_uncomp + d.value)]

load_compressed_entry(data, st) ==
    LET d == index_decode_varint(data, st.at)
        i == Len(st.offs)
        c_predict == st.c_predict + div_trunc(d.value, 2)
    IN  IF ~st.ok THEN st
        ELSE IF ~d.ok THEN [st EXCEPT !.ok = FALSE]
        ELSE IF i = 0 THEN [st EXCEPT !.at = @ + d.n, !.offs = Append(@, d.value)]
        ELSE [st EXCEPT !.at = @ + d.n, !.c_predict = c_predict,
                        !.offs = Append(@, st.offs[i] + c_predict + d.value)]

\* load: count passes of one of the two loops
RECURSIVE load_entries(_, _, _, _, _)
load_entries(data, est_block_uncomp, compressed, st, count) ==
    LET half == count \div 2
        first == load_entries(data, est_block_uncomp, compressed, st, half)
    IN  IF count <= 0 THEN st
        ELSE IF count = 1
        THEN IF compressed THEN load_compressed_entry(data, st)
             ELSE load_uncompressed_entry(data, est_block_uncomp, st)
        ELSE IF first.ok
        THEN load_entries(data, est_block_uncomp, compressed, first, count - half)
        ELSE first

\* Index::load: the index after the call and Ok or the error
load(index, data) ==
    LET hdr == SKIPPABLE_FRAME_HEADER + Len(S2_INDEX_HEADER)
        chunk_len == At(data, 1) + At(data, 2) * 256 + At(data, 3) * 65536
        tu == index_decode_varint(data, hdr)
        tc == index_decode_varint(data, hdr + tu.n)
        eb == index_decode_varint(data, hdr + tu.n + tc.n)
        ne == index_decode_varint(data, hdr + tu.n + tc.n + eb.n)
        flag_at == hdr + tu.n + tc.n + eb.n + ne.n
        i1 == [index EXCEPT !.total_uncompressed = tu.value]
        i2 == [i1 EXCEPT !.total_compressed = tc.value]
        i3 == [i2 EXCEPT !.est_block_uncomp = eb.value]
        i4 == [i3 EXCEPT !.info = <<>>]
        start == [ok |-> TRUE, at |-> flag_at + 1, offs |-> <<>>, c_predict |-> 0]
        us == IF At(data, flag_at) = 1
              THEN load_entries(data, eb.value, FALSE, start, ne.value)
              ELSE [start EXCEPT !.offs = SubSeq([i \in 1..ne.value |-> (i - 1) * eb.value],
                                                 1, ne.value)]
        cs == load_entries(data, eb.value, TRUE,
                           [us EXCEPT !.offs = <<>>, !.c_predict = div_trunc(eb.value, 2)],
                           ne.value)
        i5 == [i4 EXCEPT !.info = SubSeq([i \in 1..Len(cs.offs) |->
                                              IndexEntry(cs.offs[i], us.offs[i])],
                                         1, Len(cs.offs))]
    IN  IF Len(data) <= 4 + Len(S2_INDEX_HEADER) + Len(S2_INDEX_TRAILER)
        THEN [index |-> index, res |-> "buffer_too_small"]
        ELSE IF At(data, 0) # CHUNK_TYPE_INDEX THEN [index |-> index, res |-> "corrupt"]
        ELSE IF Len(data) - 4 < chunk_len THEN [index |-> index, res |-> "buffer_too_small"]
        ELSE IF Slice(data, 4, hdr) # S2_INDEX_HEADER
        THEN [index |-> index, res |-> "unsupported"]
        ELSE IF ~tu.ok \/ tu.value < 0 THEN [index |-> index, res |-> "corrupt"]
        ELSE IF ~tc.ok THEN [index |-> i1, res |-> "corrupt"]
        ELSE IF ~eb.ok \/ eb.value < 0 THEN [index |-> i2, res |-> "corrupt"]
        ELSE IF ~ne.ok \/ ne.value < 0 \/ ne.value > MAX_INDEX_ENTRIES
        THEN [index |-> i3, res |-> "corrupt"]
        ELSE IF flag_at >= Len(data) THEN [index |-> i4, res |-> "corrupt"]
        ELSE IF ~us.ok THEN [index |-> i4, res |-> "corrupt"]
        ELSE IF ~cs.ok THEN [index |-> i5, res |-> "corrupt"]
        ELSE IF Len(data) - cs.at < 4 + Len(S2_INDEX_TRAILER)
        THEN [index |-> i5, res |-> "corrupt"]
        ELSE IF Slice(data, Len(data) - Len(S2_INDEX_TRAILER), Len(data)) # S2_INDEX_TRAILER
        THEN [index |-> i5, res |-> "corrupt"]
        ELSE [index |-> i5, res |-> "ok"]

\* the callers' arguments
AddCompressed == {5, 10, 20}
AddUncompressed == {0, MIN_INDEX_DIST \div 2, MIN_INDEX_DIST, 2 * MIN_INDEX_DIST}
BulkEntries == 201
Totals == {0, 2 * MIN_INDEX_DIST, (BulkEntries + 1) * MIN_INDEX_DIST}
FindOffsets == {-1, 0, MIN_INDEX_DIST \div 2, MIN_INDEX_DIST, MIN_INDEX_DIST + 1,
                2 * MIN_INDEX_DIST, BulkEntries * MIN_INDEX_DIST}

InitIndex == phase = "index" /\ DecIdle /\ EncIdle /\ StrIdle

IxUnchanged == UNCHANGED <<phase, decVars, encVars, wVars, rVars, s_items, cwVars, fnVars>>

\* index.reset(max_block) on the new index
IxReset ==
    /\ phase = "index"
    /\ ix_buf = <<>> /\ ix = IndexNew
    /\ \E max_block \in {MIN_INDEX_DIST} : ix' = index_reset(ix, max_block)
    /\ ix_res' = [IxNone EXCEPT !.kind = "reset"]
    /\ IxUnchanged /\ UNCHANGED <<ix_buf, ld, ld_res>>

\* index.add(compressed_offset, uncompressed_offset)
IxAdd ==
    /\ phase = "index"
    /\ ix_buf = <<>> /\ ix.total_uncompressed < 0
    /\ \E c \in AddCompressed, u \in AddUncompressed :
          /\ ix' = index_add(ix, c, u).index
          /\ ix_res' = [IxNone EXCEPT !.kind = "add_" \o index_add(ix, c, u).res]
    /\ IxUnchanged /\ UNCHANGED <<ix_buf, ld, ld_res>>

\* the adds of a caller that writes BulkEntries blocks of MIN_INDEX_DIST
\* bytes, each compressed to 7 bytes: entries lo..hi-1
RECURSIVE add_blocks(_, _, _, _)
add_blocks(index, first_uncompressed, lo, hi) ==
    LET mid == lo + ((hi - lo) \div 2)
        first == add_blocks(index, first_uncompressed, lo, mid)
    IN  IF lo >= hi THEN index
        ELSE IF lo + 1 = hi
        THEN index_add(index, 7 * lo, first_uncompressed + lo * MIN_INDEX_DIST).index
        ELSE IF Len(first.info) >= Len(index.info)
        THEN add_blocks(first, first_uncompressed, mid, hi)
        ELSE first

IxAddBlocks ==
    /\ phase = "index"
    /\ ix_buf = <<>> /\ ix.total_uncompressed < 0 /\ ix.info = <<>>
    /\ \E first_uncompressed \in {0, MIN_INDEX_DIST} :
          ix' = add_blocks(ix, first_uncompressed, 0, BulkEntries)
    /\ ix_res' = [IxNone EXCEPT !.kind = "add_ok"]
    /\ IxUnchanged /\ UNCHANGED <<ix_buf, ld, ld_res>>

\* index.total_uncompressed = total, not below the last entry
IxSetTotal ==
    /\ phase = "index"
    /\ ix_buf = <<>> /\ ix.total_uncompressed < 0
    /\ \E total \in Totals :
          /\ \A i \in 1..Len(ix.info) : ix.info[i].uncompressed_offset <= total
          /\ ix' = [ix EXCEPT !.total_uncompressed = total]
    /\ ix_res' = [IxNone EXCEPT !.kind = "total"]
    /\ IxUnchanged /\ UNCHANGED <<ix_buf, ld, ld_res>>

\* index.find(offset)
IxFind ==
    /\ phase = "index"
    /\ ix_buf = <<>>
    /\ \E offset \in FindOffsets : ix_res' = index_find(ix, offset)
    /\ IxUnchanged /\ UNCHANGED <<ix, ix_buf, ld, ld_res>>

\* index.append_to(&mut buf, uncomp_total, comp_total) with an empty buf
IxAppend ==
    /\ phase = "index"
    /\ ix_buf = <<>>
    /\ \E uncomp_total \in {0, 2 * MIN_INDEX_DIST}, comp_total \in {-1, 30} :
          /\ ix' = reduce(ix)
          /\ ix_buf' = append_to(reduce(ix), uncomp_total, comp_total)
          /\ ix_res' = [kind |-> "appended", c |-> comp_total, v |-> uncomp_total, u |-> 0]
    /\ IxUnchanged /\ UNCHANGED <<ld, ld_res>>

\* Index::new().load(&buf)
IxLoad ==
    /\ phase = "index"
    /\ ix_buf # <<>> /\ ld_res = "none"
    /\ ld' = load(ld, ix_buf).index
    /\ ld_res' = load(ld, ix_buf).res
    /\ IxUnchanged /\ UNCHANGED <<ix, ix_buf, ix_res>>

NextIndex == IxReset \/ IxAdd \/ IxAddBlocks \/ IxSetTotal \/ IxFind \/ IxAppend \/ IxLoad

SpecIndex == InitIndex /\ [][NextIndex]_vars

\* the entry of the index that a lookup of u has to give: the last one at or
\* before u, if there is one
StoredAtOrBefore(info, u) == {i \in 1..Len(info) : info[i].uncompressed_offset <= u}

\* C18: a find(u) that returns a pair returns the stored entry with the
\* largest uncompressed offset not above u, when the index stores an entry at
\* or before u, never an entry above u, and the binary search gives the pair
\* that the linear scan gives on the same index
C18_Find ==
    (phase = "index" /\ ix_res.kind = "found") =>
        /\ StoredAtOrBefore(ix.info, ix_res.u) # {} =>
              \E i \in StoredAtOrBefore(ix.info, ix_res.u) :
                 /\ ix.info[i] = IndexEntry(ix_res.c, ix_res.v)
                 /\ \A j \in StoredAtOrBefore(ix.info, ix_res.u) :
                       ix.info[j].uncompressed_offset <= ix_res.v
        /\ ix_res.v <= ix_res.u
        /\ Len(ix.info) > 200 => <<ix_res.c, ix_res.v>> = find_linear(ix.info, ix_res.u)

\* the entries are strictly increasing in uncompressed offset, by at least
\* MIN_INDEX_DIST, and non-decreasing in compressed offset
IndexOrdered(info) ==
    \A i \in 2..Len(info) :
       /\ info[i].uncompressed_offset >= info[i - 1].uncompressed_offset + MIN_INDEX_DIST
       /\ info[i].compressed_offset >= info[i - 1].compressed_offset

\* C19: after every add the entries are ordered in both coordinates with the
\* minimum distance, and an add that returns Corrupt leaves them unchanged
C19_AddOrdered ==
    [][phase = "index" =>
          /\ IndexOrdered(ix.info')
          /\ ix_res.kind' = "add_corrupt" => ix.info' = ix.info]_vars

\* C20: load on the bytes of append_to returns Ok and gives the entries, the
\* block size estimate and the two totals that append_to wrote
C20_RoundTrip ==
    (phase = "index" /\ ld_res # "none") =>
        /\ ld_res = "ok"
        /\ ld.info = ix.info
        /\ ld.est_block_uncomp = ix.est_block_uncomp
        /\ ld.total_uncompressed = ix_res.v
        /\ ld.total_compressed = ix_res.c
----------------------------------------------------------------------------
(* Properties of decode() *)

\* C5: decode never panics, its cursors stay inside src and dst, every
\* loop iteration consumes input (so it terminates), and Ok means that
\* exactly as many bytes as the leading varint says were written.
DecInv ==
    /\ dec_pc # "panic"
    /\ dec_pc \in {"run", "ok"} => dec_s <= Len(dec_src)
    /\ dec_d <= dec_len
    /\ Len(dec_dst) = dec_d
    /\ dec_pc = "ok" => /\ decode_varint(y).ok
                        /\ Len(dec_dst) = decode_varint(y).value
                        /\ dec_s = Len(dec_src)
DecProgress ==
    (dec_pc = "run" /\ dec_pc' = "run") => (dec_s' > dec_s /\ dec_d' >= dec_d)
C5_DecoderTotalAndSafe == []DecInv /\ [][DecProgress]_vars
C5_Witness ==
    /\ dec_pc = "ok"
    /\ dec_d = 5
    /\ dec_ev.kind = "copy"
    /\ Len(dec_src) >= 4

\* the offset a copy tag at src[s] stands for, read off the wire format;
\* -1 when the tag is cut short
WireOffset(src, s, last) ==
    LET tag == At(src, s) % 4
        avail == Len(src) - s
    IN  IF tag = TAG_COPY1
        THEN IF avail < 2 THEN -1
             ELSE LET t == (At(src, s) \div 32) * 256 + At(src, s + 1)
                  IN IF t = 0 THEN last ELSE t
        ELSE IF tag = TAG_COPY2
        THEN IF avail < 3 THEN -1 ELSE At(src, s + 1) + 256 * At(src, s + 2)
        ELSE IF avail < 5 THEN -1 ELSE LeVal(src, s + 1, 4)

\* C8: a copy tag (Copy1, Copy2, Copy4 or repeat) whose offset is 0 or
\* reaches before the start of the output makes decode return Corrupt and
\* writes nothing, in the fast and in the slow path.
BadCopyAhead ==
    /\ dec_pc = "run"
    /\ dec_s < Len(dec_src)
    /\ At(dec_src, dec_s) % 4 # TAG_LITERAL
    /\ LET o == WireOffset(dec_src, dec_s, dec_offset) IN o <= 0 \/ o > dec_d
C8_CopyOffsetValidated ==
    [][BadCopyAhead => (dec_pc' = "corrupt" /\ dec_dst' = dec_dst)]_vars
C8_Witness ==
    /\ dec_pc = "corrupt"
    /\ dec_ev.kind = "copy"
    /\ dec_ev.offset = 0
    /\ dec_ev.d0 > 0

\* C9: a copy of length l at offset o appends, for each i < l, the byte
\* that stood at d - o + (i mod o) before the copy; the bytes below d are
\* unchanged and d advances by l.
CopyStepRepeats ==
    (dec_pc = "run" /\ dec_pc' = "run" /\ dec_ev'.kind = "copy") =>
        LET o == dec_ev'.offset
            l == dec_ev'.length
        IN  /\ o >= 1 /\ o <= dec_d
            /\ dec_d' = dec_d + l
            /\ Len(dec_dst') = dec_d + l
            /\ SubSeq(dec_dst', 1, dec_d) = dec_dst
            /\ \A i \in 0..(l - 1) :
                   At(dec_dst', dec_d + i) = At(dec_dst, dec_d - o + (i % o))
C9_OverlappingCopy == [][CopyStepRepeats]_vars
C9_Witness ==
    /\ dec_pc = "run"
    /\ dec_ev.kind = "copy"
    /\ dec_ev.offset = 2
    /\ dec_ev.length = 4
    /\ dec_dst[1] # dec_dst[2]
----------------------------------------------------------------------------
(* varint.rs and decode_len, called on their own *)

MaxVarintLen == 11

\* bytes with the continuation bit, and bytes without it
VarintMore == {128, 255}
VarintLast == {0, 1, 2, 16, 127}

\* 0, 1, 127, 128, 2^28 - 1, 2^28, 2^32 - 1, 2^32, 2^63 - 1, 2^63, 2^64 - 1
VarintValues ==
    {<<0, 0, 0>>, <<1, 0, 0>>, <<127, 0, 0>>, <<128, 0, 0>>, <<Limb - 1, 0, 0>>,
     <<0, 1, 0>>, <<Limb - 1, 15, 0>>, <<0, 16, 0>>, <<Limb - 1, Limb - 1, 127>>,
     <<0, 0, 128>>, <<Limb - 1, Limb - 1, 255>>}

InitVarint ==
    /\ phase = "varint"
    /\ y = <<>>
    /\ dec_src = <<>>
    /\ dec_len = 0
    /\ dec_dst = <<>>
    /\ dec_s = 0
    /\ dec_d = 0
    /\ dec_offset = 0
    /\ dec_pc = "idle"
    /\ dec_ev = NoEv
    /\ EncIdle
    /\ StrIdle

VrUnchanged ==
    UNCHANGED <<phase, dec_src, dec_len, dec_dst, dec_s, dec_d, dec_offset, dec_pc, dec_ev,
                encVars, wVars, rVars, s_items, cwVars, ixVars>>

\* the caller assembles a slice: continuation bytes, then at most one byte
\* without the continuation bit and one byte after it
VrInput ==
    /\ phase = "varint"
    /\ fn_res = FnNone
    /\ fn_arg = <<>>
    /\ Len(y) < MaxVarintLen
    /\ \A j \in 1..(Len(y) - 1) : y[j] >= 128
    /\ \E b \in VarintMore \cup VarintLast : y' = Append(y, b)
    /\ UNCHANGED fnVars
    /\ VrUnchanged

\* decode_varint(&y)
VrDecodeVarint ==
    /\ phase = "varint"
    /\ fn_res = FnNone
    /\ fn_res' = [op |-> "decode_varint", r |-> decode_varint_u64(y),
                  narrow |-> decode_varint(y)]
    /\ UNCHANGED <<y, fn_arg>>
    /\ VrUnchanged

\* decode_len(&y)
VrDecodeLen ==
    /\ phase = "varint"
    /\ fn_res = FnNone
    /\ fn_arg = <<>>
    /\ fn_res' = [op |-> "decode_len", r |-> decode_len(y)]
    /\ UNCHANGED <<y, fn_arg>>
    /\ VrUnchanged

\* let n = encode_varint(&mut buf, value) with a buffer of 10 bytes, next to
\* varint_size(value)
VrEncodeVarint ==
    /\ phase = "varint"
    /\ fn_res = FnNone
    /\ fn_arg = <<>>
    /\ y = <<>>
    /\ \E value \in VarintValues :
          /\ fn_arg' = value
          /\ fn_res' = [op |-> "encode_varint", out |-> encode_varint_u64(value),
                        size |-> varint_size(value)]
    /\ UNCHANGED y
    /\ VrUnchanged

\* the caller hands the bytes encode_varint wrote to decode_varint
VrFeed ==
    /\ phase = "varint"
    /\ fn_res.op = "encode_varint"
    /\ y' = fn_res.out
    /\ fn_res' = FnNone
    /\ UNCHANGED fn_arg
    /\ VrUnchanged

NextVarint == VrInput \/ VrDecodeVarint \/ VrDecodeLen \/ VrEncodeVarint \/ VrFeed

SpecVarint == InitVarint /\ [][NextVarint]_vars

\* the slice y starts with a well-formed varint of n bytes
WellFormedVarint(n) ==
    /\ n >= 1 /\ n <= 10 /\ n <= Len(y)
    /\ \A j \in 1..(n - 1) : y[j] >= 128
    /\ y[n] < 128
    /\ n = 10 => y[n] <= 1

\* digit j (from 0) of a u64 in base 128
Digit128(value, j) == (value[(j \div 4) + 1] \div (128 ^ (j % 4))) % 128

\* C23: decode_len on a slice that starts with a well-formed varint whose
\* value is above 2^32 - 1 returns the TooLarge error
C23_OversizeTooLarge ==
    (phase = "varint" /\ fn_res.op = "decode_len"
        /\ \E n \in 1..10 :
              /\ WellFormedVarint(n)
              /\ \/ \E j \in 6..n : y[j] % 128 # 0
                 \/ (n >= 5 /\ y[5] % 128 >= 16))
        => (~fn_res.r.ok /\ fn_res.r.err = "toolarge")

\* C29: decode_varint returns Ok((v, n)) exactly when the slice starts with
\* continuation bytes followed, within the first 10 bytes, by a byte without
\* the continuation bit that is at most 1 if it is the tenth; n is the
\* position of that byte and the base-128 digits of v are the low seven
\* bits of the n bytes; otherwise it returns Corrupt.  encode_varint writes
\* varint_size(v) bytes, and decode_varint of them returns v and that size.
C29_VarintCodec ==
    phase = "varint" =>
        /\ fn_res.op = "decode_varint" =>
              LET r == fn_res.r IN
              /\ r.ok <=> \E n \in 1..10 : WellFormedVarint(n)
              /\ ~r.ok => r.err = "corrupt"
              /\ r.ok =>
                    /\ WellFormedVarint(r.n)
                    /\ r.v[1] < Limb /\ r.v[2] < Limb /\ r.v[3] < 256
                    /\ \A j \in 0..9 :
                          Digit128(r.v, j) = IF j < r.n THEN y[j + 1] % 128 ELSE 0
              /\ fn_arg # <<>> => (r.ok /\ r.v = fn_arg /\ r.n = Len(y))
        /\ fn_res.op = "encode_varint" => Len(fn_res.out) = fn_res.size
C29_Witness ==
    /\ phase = "varint"
    /\ fn_arg = <<Limb - 1, Limb - 1, 255>>
    /\ fn_res.op = "decode_varint"
    /\ fn_res.r.ok
    /\ fn_res.r.n = 10
    /\ y = <<255, 255, 255, 255, 255, 255, 255, 255, 255, 1>>

\* the saturating decode_varint the block decoder uses agrees with the
\* full-width one: same verdict, same length, same value below Cap
VarintNarrowAgrees ==
    (phase = "varint" /\ fn_res.op = "decode_varint") =>
        LET r == fn_res.r
            narrow == fn_res.narrow
        IN  /\ narrow.ok = r.ok
            /\ r.ok =>
                  /\ narrow.n = r.n
                  /\ narrow.over32 = u64_gt_u32(r.v)
                  /\ narrow.value = IF r.v[3] > 0 \/ r.v[2] >= 2 THEN Cap
                                    ELSE Sat(r.v[1] + r.v[2] * Limb)
----------------------------------------------------------------------------
(* reader.rs on a source that was cut off *)

InitTrunc == phase = "trunc" /\ DecIdle /\ EncIdle /\ StrIdle

\* the chunks named in items, from the k-th on, one after the other
RECURSIVE items_bytes(_, _)
items_bytes(items, k) ==
    IF k > Len(items) THEN <<>> ELSE item_bytes(items[k], k) \o items_bytes(items, k + 1)

\* the source ends inside its last chunk
Truncated == w_out # items_bytes(s_items, 1)

\* a producer appends a whole chunk to the source before the Reader's first call
TruncFeed ==
    /\ phase = "trunc"
    /\ r_pc = "idle" /\ r_last = "none"
    /\ Len(s_items) < MaxChunks
    /\ ~Truncated
    /\ \E name \in (IF s_items = <<>> THEN {"s2"} ELSE GoodItems \cup {"skipfe"}) :
          /\ s_items' = Append(s_items, name)
          /\ w_out' = w_out \o item_bytes(name, Len(s_items) + 1)
    /\ UNCHANGED <<phase, decVars, encVars, w_buf, w_wrote_header, w_total_written,
                   w_pending, w_pc, w_ctx, w_x, w_calls, w_foreign, w_padding, w_block, w_old, rVars,
                   cwVars, ixVars, fnVars>>

\* the source loses its end: at least one byte of the last chunk stays, and
\* at least one is gone
TruncCut ==
    /\ phase = "trunc"
    /\ r_pc = "idle" /\ r_last = "none"
    /\ s_items # <<>>
    /\ ~Truncated
    /\ \E gone \in 1..(Len(item_bytes(s_items[Len(s_items)], Len(s_items))) - 1) :
          w_out' = SubSeq(w_out, 1, Len(w_out) - gone)
    /\ UNCHANGED <<phase, decVars, encVars, w_buf, w_wrote_header, w_total_written,
                   w_pending, w_pc, w_ctx, w_x, w_calls, w_foreign, w_padding, w_block, w_old, rVars,
                   restVars>>

NextTrunc == TruncFeed \/ TruncCut \/ ReaderRead \/ RChunk \/ RVerify \/ DecStep

SpecTrunc == InitTrunc /\ [][NextTrunc]_vars

\* C24: a read call returns Ok(0) into a non-empty buffer only if the
\* source ends at a chunk boundary; on a source that ends inside a chunk
\* header or inside a chunk payload no read call reports a clean end
C24_TruncationIsError ==
    (phase = "trunc" /\ r_last = "eof") => ~Truncated
----------------------------------------------------------------------------
(* encode, encode_better and encode_best on the same input *)

\* n pseudo-random bytes, the ones for positions from .. from + n - 1
NoiseBytes(from, n) == SubSeq([i \in 1..n |-> LongNoise(from + i - 1)], 1, n)

\* 96 bytes without a match, twelve of them again, eight more
OneMatch == NoiseBytes(0, 96) \o NoiseBytes(40, 12) \o NoiseBytes(96, 8)

\* "The quick brown fox jumps over the lazy dog. " three times
FoxText ==
    LET fox == <<84, 104, 101, 32, 113, 117, 105, 99, 107, 32, 98, 114, 111, 119, 110,
                 32, 102, 111, 120, 32, 106, 117, 109, 112, 115, 32, 111, 118, 101,
                 114, 32, 116, 104, 101, 32, 108, 97, 122, 121, 32, 100, 111, 103,
                 46, 32>>
    IN  fox \o fox \o fox

\* inputs of 100 bytes and more: a run of one byte, a pattern of period 8,
\* text, and noise with one match
LevelInputs ==
    {SubSeq([i \in 1..104 |-> 97], 1, 104),
     SubSeq([i \in 1..104 |-> ((i - 1) % 8) + 1], 1, 104),
     FoxText,
     OneMatch}

InitLevels == phase = "levels" /\ DecIdle /\ EncIdle /\ StrIdle

\* the caller picks the input and is about to call encode
LvInput ==
    /\ phase = "levels"
    /\ fn_arg = <<>>
    /\ \E x \in LevelInputs :
          /\ fn_arg' = x
          /\ enc_src' = x
    /\ fn_res' = [op |-> "levels", fast |-> -1, better |-> -1, best |-> -1]
    /\ phase' = "fast"
    /\ UNCHANGED <<decVars, enc_cap, enc_dst, enc_s, enc_next_emit, enc_candidate,
                   fastLoc, betterLoc, enc_pc, enc_out, wVars, rVars, s_items, cwVars,
                   ixVars>>

\* the running encoder has returned: the caller notes compressed.len() and
\* goes on to the next level
LvReturn ==
    /\ phase \in {"fast", "better", "best"}
    /\ fn_res.op = "levels"
    /\ enc_pc = "done"
    /\ fn_res' = [fn_res EXCEPT ![phase] = Len(enc_out)]
    /\ phase' = IF phase = "fast" THEN "better"
                ELSE IF phase = "better" THEN "best" ELSE "levels"
    /\ enc_src' = fn_arg
    /\ enc_cap' = 0
    /\ enc_dst' = <<>>
    /\ enc_s' = 0
    /\ enc_next_emit' = 0
    /\ enc_candidate' = 0
    /\ enc_skip' = 0
    /\ enc_table' = EmptyTable
    /\ enc_l_table' = EmptyTable
    /\ enc_s_table' = EmptyTable
    /\ enc_repeat' = 0
    /\ enc_cv' = Zero64
    /\ enc_next_s' = 0
    /\ enc_best' = EmptyMatch
    /\ enc_pc' = "idle"
    /\ enc_out' = <<>>
    /\ UNCHANGED <<decVars, fn_arg, wVars, rVars, s_items, cwVars, ixVars>>

NextLevels ==
    \/ LvInput \/ LvReturn
    \/ FastCall \/ FastStep \/ BetterCall \/ BetterStep \/ BestCall \/ BestStep

SpecLevels == InitLevels /\ [][NextLevels]_vars

\* C25: for an input of at least 100 bytes the block encode_best returns is
\* no longer than the one encode_better returns, which is no longer than
\* the one encode returns
C25_MonotonicByLevel ==
    (phase = "levels" /\ fn_res.op = "levels" /\ Len(fn_arg) >= 100) =>
        (fn_res.best <= fn_res.better /\ fn_res.better <= fn_res.fast)
----------------------------------------------------------------------------
(* Writer::reset between writes, then Reader::new on the new underlying writer *)

InitReset == phase = "reset" /\ DecIdle /\ EncIdle /\ StrIdle

NextReset ==
    \/ WWrite \/ WFlush \/ WReset \/ WDrop \/ WFlushEnd \/ FastStep
    \/ ReaderRead \/ RChunk \/ RVerify \/ DecStep

SpecReset == InitReset /\ [][NextReset]_vars

\* C26: reset leaves the old underlying writer as it was, without the
\* buffered bytes, and never touches it again; it empties the buffer and
\* restarts total_written at 0; what the new underlying writer receives
\* starts with the magic chunk, total_written counts it, and once the Writer
\* is closed it reads back as exactly the bytes written after the reset
C26_WriterReset ==
    [][phase = "reset" =>
          /\ w_old' # w_old =>
                /\ w_old = <<>>
                /\ w_old' = <<w_out>>
                /\ w_buf' = <<>>
                /\ w_total_written' = 0
                /\ w_out' = <<>>
          /\ w_old' # <<>> =>
                /\ w_total_written' = Len(w_out')
                /\ w_out' # <<>> =>
                      /\ Len(w_out') >= Len(MAGIC_CHUNK)
                      /\ SubSeq(w_out', 1, Len(MAGIC_CHUNK)) = MAGIC_CHUNK
                /\ (w_pc' = "closed" /\ w_x' # <<>> /\ r_last' \notin {"none", "ok"}) =>
                      (r_last' = "eof" /\ ~r_erred' /\ r_ret' = w_x')]_vars
----------------------------------------------------------------------------
(* Writer::with_block_size, then writes of less and of more than a block *)

\* the block sizes a caller asks for
BlockRequests == {1, MIN_BLOCK_SIZE + 40, MAX_BLOCK_SIZE + 1}

InitBlock == phase = "block" /\ DecIdle /\ EncIdle /\ StrIdle

\* Writer::with_block_size(writer, size) instead of Writer::new
WWithBlockSize ==
    /\ phase = "block"
    /\ w_pc = "idle" /\ w_calls = 0 /\ fn_arg = <<>>
    /\ \E size \in BlockRequests :
          /\ fn_arg' = <<size>>
          /\ w_block' = with_block_size(size)
    /\ UNCHANGED <<phase, decVars, encVars, w_out, w_buf, w_wrote_header, w_total_written,
                   w_pending, w_pc, w_ctx, w_x, w_calls, w_foreign, w_padding, w_old, rVars,
                   s_items, cwVars, ixVars, fn_res>>

\* encode(&self.buf) in flush_block, from its call to its return
WEncode ==
    /\ phase = "block"
    /\ w_pc = "flush"
    /\ enc_pc \notin {"idle", "done", "panic"}
    /\ FastSet(fast_run(FastCur, 2 * Len(enc_src) + 2))
    /\ UNCHANGED <<phase, decVars, betterLoc, strVars>>

NextBlock == WWithBlockSize \/ WWrite \/ WFlush \/ WDrop \/ WFlushEnd \/ WEncode

SpecBlock == InitBlock /\ [][NextBlock]_vars

\* the data chunks cs[i..] of stream carry between 1 and limit uncompressed
\* bytes each, in a chunk of at most MAX_CHUNK_SIZE bytes
RECURSIVE chunks_within(_, _, _, _)
chunks_within(stream, cs, i, limit) ==
    IF i > Len(cs) THEN TRUE
    ELSE LET c == cs[i]
             h == decode_len(Slice(stream, c.off + 4 + CHECKSUM_SIZE, c.off + 4 + c.len))
         IN  /\ c.type = CHUNK_TYPE_COMPRESSED_DATA
             /\ c.len <= MAX_CHUNK_SIZE
             /\ h.ok /\ h.dlen >= 1 /\ h.dlen <= limit
             /\ chunks_within(stream, cs, i + 1, limit)

----------------------------------------------------------------------------
(* emit_repeat and decode_copy1 called on their own: the bytes of one       *)
(* repeat, and what the decoder makes of them.                              *)

\* the largest length a three-byte length field can carry: 0xffffff + 65540
REPEAT_FIELD_MAX == 16777215 + 65536 + 4
\* the largest length the format description gives for a repeat
REPEAT_STATED_MAX == 16777216 + 65536 + 251

\* the lengths around every change of form
RepeatLengths ==
    (4..13) \cup (258..266) \cup (65790..65798)
        \cup ((REPEAT_FIELD_MAX - 3)..(REPEAT_FIELD_MAX + 3))
        \cup ((REPEAT_STATED_MAX - 2)..REPEAT_STATED_MAX)
RepeatOffsets == {1, 255, 256, 2047, 2048, 65535, 65536, MAX_BLOCK_SIZE}
\* what follows the tag in the block
RepeatTails == {<<>>, <<255>>, <<0, 0, 0, 0>>}

InitRepeat == phase = "repeat" /\ DecIdle /\ EncIdle /\ StrIdle

RpUnchanged ==
    UNCHANGED <<phase, dec_src, dec_len, dec_dst, dec_s, dec_d, dec_offset, dec_pc, dec_ev,
                encVars, wVars, rVars, s_items, cwVars, ixVars>>

\* let n = emit_repeat(&mut dst, offset, length)
RpEmitRepeat ==
    /\ phase = "repeat"
    /\ fn_res = FnNone
    /\ fn_arg = <<>>
    /\ \E offset \in RepeatOffsets, length \in RepeatLengths :
          /\ fn_arg' = <<offset, length>>
          /\ fn_res' = [op |-> "emit_repeat", out |-> emit_repeat(offset, length),
                        n |-> Len(emit_repeat(offset, length))]
    /\ UNCHANGED y
    /\ RpUnchanged

\* the tag becomes part of a block
RpBlock ==
    /\ phase = "repeat"
    /\ fn_res.op = "emit_repeat"
    /\ y = <<>>
    /\ \E tail \in RepeatTails : y' = fn_res.out \o tail
    /\ UNCHANGED fnVars
    /\ RpUnchanged

\* decode_copy1(&y, offset)
RpDecodeCopy1 ==
    /\ phase = "repeat"
    /\ fn_res.op = "emit_repeat"
    /\ y # <<>>
    /\ fn_res' = [op |-> "decode_copy1", out |-> fn_res.out, n |-> fn_res.n,
                  r |-> decode_copy1(y, 0, fn_arg[1])]
    /\ UNCHANGED <<y, fn_arg>>
    /\ RpUnchanged

\* the next call
RpNext ==
    /\ phase = "repeat"
    /\ fn_res.op = "decode_copy1"
    /\ fn_res' = FnNone
    /\ fn_arg' = <<>>
    /\ y' = <<>>
    /\ RpUnchanged

NextRepeat == RpEmitRepeat \/ RpBlock \/ RpDecodeCopy1 \/ RpNext

SpecRepeat == InitRepeat /\ [][NextRepeat]_vars

\* decode_copy1 gave back the offset and the length of the call and consumed
\* the bytes emit_repeat reported
RepeatRoundTrip ==
    /\ fn_res.r.ok
    /\ fn_res.r.offset = fn_arg[1]
    /\ fn_res.r.length = fn_arg[2]
    /\ fn_res.r.n = fn_res.n

----------------------------------------------------------------------------
(* decode() on blocks put together from whole tags, long enough for the     *)
(* fast path of s2_decode to handle more than the first of them.            *)

\* tags: literals of 4, 1 and 1 bytes (the last with a length byte), a Copy1
\* of 4 bytes at offset 4, repeats of 5 and of 10 bytes, an overlapping Copy2,
\* a Copy4, a Copy2 at offset 0, a Copy1 reaching before the start, and a
\* literal and a repeat that need more length bytes than may follow
PathTags ==
    {<<>>, <<12, 1, 2, 3, 4>>, <<0, 9>>, <<240, 0, 7>>, <<1, 4>>, <<5, 0>>, <<21, 0, 2>>,
     <<14, 2, 0>>, <<15, 1, 0, 0, 0>>, <<14, 0, 0>>, <<1, 200>>, <<244, 1>>, <<25, 0>>}
PathLens == {5, 8, 12, 13}
PathBlocks == {<<n>> \o a \o b \o c : n \in PathLens, a \in PathTags, b \in PathTags,
                                        c \in PathTags}

InitPaths == phase = "paths" /\ DecIdle /\ EncIdle /\ StrIdle

\* decode(&block)
PathCall ==
    /\ phase = "paths"
    /\ dec_pc = "idle"
    /\ \E block \in PathBlocks : DecodeBegin(block)
    /\ UNCHANGED <<phase, encVars, strVars>>

NextPaths == PathCall \/ DecStep

SpecPaths == InitPaths /\ [][NextPaths]_vars

\* two ways of handling a tag came to the same: the same s, d, last offset
\* and bytes of dst, or the same way out of the loop
SamePath(a, b) ==
    IF a.pc = "run" /\ b.pc = "run"
    THEN a.s = b.s /\ a.d = b.d /\ a.offset = b.offset /\ a.dst = b.dst
    ELSE a.pc = b.pc

\* what s2_decode returns from (s, d, offset, dst) on, were the fast loop to
\* stop at limit instead of src.len().saturating_sub(5)
RECURSIVE decode_from(_, _, _, _, _, _, _)
decode_from(src, s, d, offset, dst, dlen, limit) ==
    LET r == IF s < limit THEN FastTag(src, s, d, offset, dst, dlen)
             ELSE SlowTag(src, s, d, offset, dst, dlen)
    IN  IF s >= Len(src)
        THEN IF d # dlen THEN [pc |-> "corrupt", dst |-> <<>>] ELSE [pc |-> "ok", dst |-> dst]
        ELSE IF r.pc # "run" THEN [pc |-> r.pc, dst |-> <<>>]
        ELSE decode_from(src, r.s, r.d, r.offset, r.dst, dlen, limit)

\* C30: a tag the fast path handles (more than 5 source bytes left) is
\* handled by the slow path, at the same state, with the same new s, d and
\* last offset and the same bytes in dst, or with Corrupt in both; and the
\* result of decode is the same wherever the fast path hands over to the slow
\* path
C30_PathEquivalence ==
    (phase = "paths" /\ dec_pc = "run")
    => /\ (dec_s < FastLimit(dec_src) /\ dec_s < Len(dec_src))
          => SamePath(FastTag(dec_src, dec_s, dec_d, dec_offset, dec_dst, dec_len),
                      SlowTag(dec_src, dec_s, dec_d, dec_offset, dec_dst, dec_len))
       /\ \A limit \in 0..FastLimit(dec_src) :
             decode_from(dec_src, dec_s, dec_d, dec_offset, dec_dst, dec_len, limit)
                = decode_from(dec_src, dec_s, dec_d, dec_offset, dec_dst, dec_len,
                              FastLimit(dec_src))

\* after a literal the fast path has handled a Copy1 that set the last
\* offset, with a Copy4 still to come
C30_Witness ==
    /\ phase = "paths"
    /\ y = <<12, 12, 1, 2, 3, 4, 1, 4, 15, 1, 0, 0, 0>>
    /\ dec_pc = "run"
    /\ dec_s = 7
    /\ dec_ev.kind = "copy" /\ dec_ev.fast
    /\ dec_offset = 4
    /\ dec_dst = <<1, 2, 3, 4, 1, 2, 3, 4>>

====
